---------------------------- MODULE Spec2Model ----------------------------
(***************************************************************************)
(* Model of ultimate-playwright-mcp: the tab-group ownership registry and  *)
(* its cross-process file lock (browser/tab-groups.ts), and the Chrome     *)
(* daemon singleton (daemon/chrome-daemon.ts, daemon/daemon-manager.ts).   *)
(*                                                                         *)
(* Registry part.  Every MCP server process p runs registry operations one *)
(* at a time.  An operation is: acquireLock (a retry loop over the         *)
(* sentinel file), readRegistry, the callback, writeRegistry, releaseLock. *)
(* Each file-system call is one atomic step; the steps of different        *)
(* processes interleave freely.                                            *)
(*                                                                         *)
(* Daemon part.  Server processes run ensureDaemonRunning, the daemons they *)
(* spawn run ChromeDaemon.start; each file-system call is one step.        *)
(*                                                                         *)
(* Tool part.  The handlers of browser_tabs (list, new, close, select) and *)
(* of browser_tab_group (create, delete), each registry call and each      *)
(* browser or extension call one step.                                     *)
(*                                                                         *)
(* Extension part.  Discovery of the companion extension's service worker  *)
(* with its cache and wake (findExtensionServiceWorker) and the evaluation *)
(* call on it (evalOnExtension), each await one step.                      *)
(*                                                                         *)
(* Correlation part.  The two functions that map debug-protocol targets to  *)
(* native tabs by url and title, applied to bounded inputs.  The 'status'  *)
(* command of the daemon CLI (daemon/cli.ts) runs beside the daemon part.  *)
(*                                                                         *)
(* Payload fields that no registry operation ever reads (name, color,      *)
(* createdAt, addedAt) are not represented; a group is its chromeGroupId   *)
(* (0 = not set) and a tab entry is its groupId.                           *)
(***************************************************************************)
EXTENDS Integers, FiniteSets, Sequences, Bags, TLC

\* ---------------------------------------------------------------- bounds
Procs == {1, 2}                 \* pids of the MCP server processes
StalePid == 3                   \* pid of a process that died before the run
GroupIds == {"g1", "g2"}        \* values generateGroupId can return
TargetIds == {"t1", "t2"}       \* CDP target ids
ChromeGroupIds == {7}           \* Chrome's visual group ids
ExtIds == {"e1"}                \* companion extension ids
MaxOps == 3                     \* mutating operations recorded in the history
MaxCrashes == 1                 \* processes that may die inside a critical section
TickMs == 2000                  \* granularity of the modelled clock (ms)

Daemons == {11, 12}             \* pids of the daemon processes that get spawned
StaleDaemonPid == 13            \* pid of a daemon that died before the run
MaxBrowsers == 2                \* browser processes alive per daemon
MaxKills == 1                   \* daemons that die without running any handler
PollStep == 20                  \* readiness probes of a server per modelled step

MaxVisual == 2                  \* visual groups Chrome creates in one behaviour

\* ------------------------------------------------------------- constants
maxWaitMs == 3000               \* acquireLock(maxWaitMs = 3_000)
PollLimit == 60                 \* ensureDaemonRunning: for (i = 0; i < 60; i++)

\* waiting times are counted in ticks and saturate at the first value that
\* exceeds maxWaitMs (larger values behave identically)
AgeCap == (maxWaitMs \div TickMs) + 1

None == "none"

VARIABLES
  alive,      \* alive[pid]: the process is running (process.kill(pid, 0) succeeds)
  pc,         \* pc[p]: position of p inside the current registry operation
  op,         \* op[p]: the registry call p is executing, known to the model
              \* from the moment its critical section starts to use it
  lock,       \* content of LOCK_PATH: 0 = file absent, else the owner pid
  waited,     \* waited[p]: ticks since p entered acquireLock (Date.now() - start)
  file,       \* content of REGISTRY_PATH
  reg,        \* reg[p]: the in-memory registry of p's critical section
  result,     \* result[p]: what the call returns or throws; once it has ended
              \* only how it ended (status) is kept
  inputs,     \* the kinds of registry call the processes of this behaviour
              \* issue (never changes)
  recording,  \* whether this behaviour keeps the history below (never changes)
  hist,       \* bag of mutating operations that returned successfully
  histCrashed \* bag of mutating operations written by a process that then died

regVars == <<alive, pc, op, lock, waited, file, reg, result, inputs, recording,
             hist, histCrashed>>

\* Daemon part: the MCP server processes run DaemonManager.ensureDaemonRunning
\* at startup, the daemon processes they spawn run ChromeDaemon.start.
VARIABLES
  pidFile,    \* content of DAEMON_LOCK_FILE: 0 = file absent, else a pid
  spc,        \* spc[s]: position of server s inside ensureDaemonRunning
  polls,      \* polls[s]: the loop counter i of ensureDaemonRunning
  dpc,        \* dpc[d]: position of daemon process d ("unborn" .. "exited")
  handle,     \* handle[d]: this.chromeProcess ("null" or "proc")
  browsers,   \* browsers[d]: live browser processes spawned by d
  portOwner,  \* the daemon whose browser answers on CDP_PORT, 0 = nobody
  exe,        \* a browser executable is configured or found (never changes)
  kills       \* daemons killed so far without running a handler

dmnVars == <<pidFile, spc, polls, dpc, handle, browsers, portOwner, exe, kills>>

\* Tool part: the handlers of browser_tabs and browser_tab_group, run by the
\* server processes against the shared registry file and the one browser.
VARIABLES
  tpc,        \* tpc[p]: position of p's running call ("idle" when none)
  targ,       \* targ[p]: the groupId argument of the call
  tgroup,     \* tgroup[p]: chromeGroupId of the group object getTabGroup
              \* returned (0 = undefined)
  ttab,       \* ttab[p]: resultTargetId and chromeTabId (0 = undefined)
  tvis,       \* tvis[p]: result.groupId of groupTabsVisually (0 = none yet)
  browserTabs,\* targetIds of the pages open in the browser
  visual,     \* ids of the visual groups Chrome has created
  tact,       \* tact[p]: the action argument of the call
  tscope,     \* tscope[p]: allTabs, then the scoped list of getScopedTabs
  tres,       \* tres[p]: the text the call returns or the error it throws
  closedTabs  \* targetIds of pages that were open and have been closed

toolVars == <<tpc, targ, tgroup, ttab, tvis, browserTabs, visual, tact,
              tscope, tres, closedTabs>>

\* extension part: the service-worker targets each debug endpoint lists, the
\* module-level discovery cache of one server process, and that process's
\* concurrent calls of findExtensionServiceWorker / evalOnExtension
VARIABLES listed, envc, cachedSwUrl, cachedCdpBase, cachedExtensionId,
          fpc, fkind, fe, fseen, fret, outcome, timer, events
extVars == <<listed, envc, cachedSwUrl, cachedCdpBase, cachedExtensionId,
             fpc, fkind, fe, fseen, fret, outcome, timer, events>>

\* correlation part: what the extension's queryTabs answers (the native
\* tabs, in its order), the targets handed to the two correlation functions,
\* and what each function returned
VARIABLES chromeTabs, pageTargets, corHandle, corMap
corVars == <<chromeTabs, pageTargets, corHandle, corMap>>

\* daemon control command: what 'upmcp-daemon status' has printed
VARIABLES cliOut
cliVars == <<cliOut>>

\* how long the sentinel at LOCK_PATH has existed, in ticks; kept only in
\* the behaviours that start with it tracked
VARIABLES lockAge
ageVars == <<lockAge>>

\* resolving[d]: the startChrome calls of daemon d that await
\* resolveExtensions and have not spawned yet
VARIABLES resolving
startVars == <<resolving>>

\* ------------------------------------------------------------ map helpers
EmptyMap == [k \in {} |-> k]
Put(m, k, v) == [x \in (DOMAIN m) \cup {k} |-> IF x = k THEN v ELSE m[x]]
Del(m, k) == [x \in (DOMAIN m) \ {k} |-> m[x]]
Restrict(m, S) == [x \in (DOMAIN m) \cap S |-> m[x]]

\* { groups: {}, tabs: {} }
EmptyRegistry == [groups |-> EmptyMap, tabs |-> EmptyMap, extensionId |-> None]

NoOp == [kind |-> "none", g |-> "-", t |-> "-", live |-> {}, c |-> 0, x |-> "-"]
\* what a call hands back: status "ok" / "NotFound" (the thrown Error), ids (a
\* list of targetIds), count (a number), value (a string or null), counts
\* (listTabGroups: groupId -> tabCount)
NoResult == [status |-> "none", ids |-> {}, count |-> 0, value |-> None,
             counts |-> EmptyMap]
Ok == [NoResult EXCEPT !.status = "ok"]
NotFound == [NoResult EXCEPT !.status = "NotFound"]

MutatingKinds == {"createTabGroup", "addTabToGroup", "removeTabFromGroup",
                  "deleteTabGroup", "pruneStaleTargets", "setChromeGroupId",
                  "setExtensionId"}

MutatingOps ==
       {[NoOp EXCEPT !.kind = "createTabGroup", !.g = g] : g \in GroupIds}
  \cup {[NoOp EXCEPT !.kind = "addTabToGroup", !.t = t, !.g = g] :
            t \in TargetIds, g \in GroupIds}
  \cup {[NoOp EXCEPT !.kind = "removeTabFromGroup", !.t = t] : t \in TargetIds}
  \cup {[NoOp EXCEPT !.kind = "deleteTabGroup", !.g = g] : g \in GroupIds}
  \cup {[NoOp EXCEPT !.kind = "pruneStaleTargets", !.live = l] :
            l \in SUBSET TargetIds}
  \cup {[NoOp EXCEPT !.kind = "setChromeGroupId", !.g = g, !.c = c] :
            g \in GroupIds, c \in ChromeGroupIds}
  \cup {[NoOp EXCEPT !.kind = "setExtensionId", !.x = x] : x \in ExtIds}

ReadOps ==
       {[NoOp EXCEPT !.kind = "listTabGroups"]}
  \cup {[NoOp EXCEPT !.kind = "getGroupForTab", !.t = t] : t \in TargetIds}
  \cup {[NoOp EXCEPT !.kind = "getTabsInGroup", !.g = g] : g \in GroupIds}
  \cup {[NoOp EXCEPT !.kind = "getTabGroup", !.g = g] : g \in GroupIds}
  \cup {[NoOp EXCEPT !.kind = "getExtensionId"]}

Ops == MutatingOps \cup ReadOps

ReadKinds == {"listTabGroups", "getGroupForTab", "getTabsInGroup",
              "getTabGroup", "getExtensionId"}
\* the group/tab calls and their lookups
CoreKinds == {"createTabGroup", "addTabToGroup", "removeTabFromGroup",
              "deleteTabGroup", "pruneStaleTargets", "listTabGroups",
              "getGroupForTab", "getTabsInGroup", "getTabGroup"}

\* ------------------------------------------------------- registry file I/O
\* the file is missing until the first writeRegistry
MissingFile == [state |-> "missing", json |-> EmptyRegistry]

\* a file whose content JSON.parse rejects; json is what a reader that did
\* not reject it would make of the bytes
CorruptFile ==
  [state |-> "corrupt",
   json |-> [groups |-> [g \in {"g1"} |-> [chromeGroupId |-> 0]],
             tabs |-> [t \in {"t1"} |-> [groupId |-> "g1"]],
             extensionId |-> None]]

\* variant: no try/catch around JSON.parse, the bytes are used as they are
readRegistry_NoCatch(f) ==
  IF f.state = "missing"
    THEN EmptyRegistry
    ELSE [groups |-> f.json.groups, tabs |-> f.json.tabs, extensionId |-> None]

\* readRegistry: a missing or unparseable file is the empty registry; of the
\* parsed object only groups and tabs are copied into the result
readRegistry(f) ==
  IF f.state = "ok"
    THEN [groups |-> f.json.groups, tabs |-> f.json.tabs, extensionId |-> None]
    ELSE EmptyRegistry

\* writeRegistry: full-file overwrite with JSON.stringify(reg)
writeRegistry(r) == [state |-> "ok", json |-> r]

\* ------------------------------------------------- callbacks of withRegistry
\* Each callback maps the registry it is handed to
\* [threw, reg (the registry as mutated), ret (the caller's return value)].
TabsOf(r, g) == {t \in DOMAIN r.tabs : r.tabs[t].groupId = g}

createTabGroupFn(r, g) ==
  [threw |-> FALSE,
   reg |-> [r EXCEPT !.groups = Put(@, g, [chromeGroupId |-> 0])],
   ret |-> [Ok EXCEPT !.value = g]]

\* variant: the group is deleted but its tab entries are kept
deleteTabGroupFn_NoCascade(r, g) ==
  IF g \notin DOMAIN r.groups
    THEN [threw |-> TRUE, reg |-> r, ret |-> NotFound]
    ELSE [threw |-> FALSE,
          reg |-> [r EXCEPT !.groups = Del(@, g)],
          ret |-> [Ok EXCEPT !.ids = TabsOf(r, g)]]

\* variant: the cascade does not compare entry.groupId and takes every tab
deleteTabGroupFn_AllTabs(r, g) ==
  IF g \notin DOMAIN r.groups
    THEN [threw |-> TRUE, reg |-> r, ret |-> NotFound]
    ELSE [threw |-> FALSE,
          reg |-> [r EXCEPT !.groups = Del(@, g), !.tabs = EmptyMap],
          ret |-> [Ok EXCEPT !.ids = DOMAIN r.tabs]]

deleteTabGroupFn(r, g) ==
  IF g \notin DOMAIN r.groups
    THEN [threw |-> TRUE, reg |-> r, ret |-> NotFound]
    ELSE [threw |-> FALSE,
          reg |-> [r EXCEPT !.groups = Del(@, g),
                            !.tabs = Restrict(@, (DOMAIN @) \ TabsOf(r, g))],
          ret |-> [Ok EXCEPT !.ids = TabsOf(r, g)]]

\* variant: an existing entry of the tab is kept
addTabToGroupFn_KeepFirst(r, t, g) ==
  IF g \notin DOMAIN r.groups
    THEN [threw |-> TRUE, reg |-> r, ret |-> NotFound]
    ELSE [threw |-> FALSE,
          reg |-> IF t \in DOMAIN r.tabs THEN r
                  ELSE [r EXCEPT !.tabs = Put(@, t, [groupId |-> g])],
          ret |-> Ok]

addTabToGroupFn(r, t, g) ==
  IF g \notin DOMAIN r.groups
    THEN [threw |-> TRUE, reg |-> r, ret |-> NotFound]
    ELSE [threw |-> FALSE,
          reg |-> [r EXCEPT !.tabs = Put(@, t, [groupId |-> g])],
          ret |-> Ok]

\* variant: removing a targetId that has no entry throws
removeTabFromGroupFn_ThrowIfAbsent(r, t) ==
  IF t \notin DOMAIN r.tabs
    THEN [threw |-> TRUE, reg |-> r, ret |-> NotFound]
    ELSE [threw |-> FALSE, reg |-> [r EXCEPT !.tabs = Del(@, t)], ret |-> Ok]

removeTabFromGroupFn(r, t) ==
  [threw |-> FALSE, reg |-> [r EXCEPT !.tabs = Del(@, t)], ret |-> Ok]

\* variant: the membership test is inverted
pruneStaleTargetsFn_Inverted(r, live) ==
  [threw |-> FALSE,
   reg |-> [r EXCEPT !.tabs = Restrict(@, (DOMAIN @) \ live)],
   ret |-> [Ok EXCEPT !.count = Cardinality((DOMAIN r.tabs) \cap live)]]

pruneStaleTargetsFn(r, live) ==
  [threw |-> FALSE,
   reg |-> [r EXCEPT !.tabs = Restrict(@, live)],
   ret |-> [Ok EXCEPT !.count = Cardinality((DOMAIN r.tabs) \ live)]]

setExtensionIdFn(r, x) ==
  [threw |-> FALSE, reg |-> [r EXCEPT !.extensionId = x], ret |-> Ok]

setChromeGroupIdFn(r, g, c) ==
  [threw |-> FALSE,
   reg |-> IF g \in DOMAIN r.groups
             THEN [r EXCEPT !.groups[g].chromeGroupId = c]
             ELSE r,
   ret |-> Ok]

\* the callback of a mutating operation o applied to registry r
Callback(o, r) ==
  CASE o.kind = "createTabGroup" -> createTabGroupFn(r, o.g)
    [] o.kind = "deleteTabGroup" -> deleteTabGroupFn(r, o.g)
    [] o.kind = "addTabToGroup" -> addTabToGroupFn(r, o.t, o.g)
    [] o.kind = "removeTabFromGroup" -> removeTabFromGroupFn(r, o.t)
    [] o.kind = "pruneStaleTargets" -> pruneStaleTargetsFn(r, o.live)
    [] o.kind = "setExtensionId" -> setExtensionIdFn(r, o.x)
    [] o.kind = "setChromeGroupId" -> setChromeGroupIdFn(r, o.g, o.c)

\* the lock-guarded lookups, computed on the registry just read
Lookup(o, r) ==
  CASE o.kind = "listTabGroups" ->
         [Ok EXCEPT !.counts = [g \in DOMAIN r.groups |-> Cardinality(TabsOf(r, g))]]
    [] o.kind = "getGroupForTab" ->
         [Ok EXCEPT !.value = IF o.t \in DOMAIN r.tabs THEN r.tabs[o.t].groupId ELSE None]
    [] o.kind = "getTabsInGroup" -> [Ok EXCEPT !.ids = TabsOf(r, o.g)]
    [] o.kind = "getTabGroup" ->
         IF o.g \in DOMAIN r.groups
           THEN [Ok EXCEPT !.value = o.g, !.count = r.groups[o.g].chromeGroupId]
           ELSE Ok
    [] o.kind = "getExtensionId" -> [Ok EXCEPT !.value = r.extensionId]

\* ------------------------------------------------------------ withRegistry
\* try { reg = readRegistry(); result = fn(reg); writeRegistry(reg) }: the file
\* after the callback outcome c; a throwing callback skips writeRegistry
\* variant: writeRegistry moved into the finally block
withRegistry_WriteInFinally(f, c) == writeRegistry(c.reg)

withRegistry(f, c) == IF c.threw THEN f ELSE writeRegistry(c.reg)

\* finally { releaseLock() }: where control goes when the try block is left,
\* whether by return or by throw
\* variant: releaseLock() after the try block instead of in finally
finallyRelease_ReturnOnly(threw) == IF threw THEN "idle" ELSE "release"

finallyRelease(threw) == "release"

\* releaseLock: unlinkSync(LOCK_PATH), "already gone" is swallowed
releaseLock(l) == 0

\* isProcessAlive: process.kill(pid, 0) succeeds
\* variant: the liveness probe reports every recorded owner alive
isProcessAlive_Always(pid) == TRUE

isProcessAlive(pid) == alive[pid]

\* Date.now() - start > maxWaitMs
TimedOut(p) == waited[p] * TickMs > maxWaitMs

Acquiring(p) == pc[p] \in {"create", "readLock", "unlinkStale", "timeout"}
\* p has returned from acquireLock and has not yet called releaseLock
Holding(p) == alive[p] /\ pc[p] \in {"read", "apply", "release"}

\* mutating operations begun and not yet forgotten (bounds the history)
OpsUsed == BagCardinality(hist) + BagCardinality(histCrashed)
           + Cardinality({q \in Procs : op[q].kind \in MutatingKinds})

Pids == Procs \cup {StalePid}

RegInitFile(ins, rec, locks, files) ==
  /\ inputs = ins
  /\ recording = rec
  /\ alive = [p \in Pids |-> p \in Procs]
  /\ pc = [p \in Procs |-> "idle"]
  /\ op = [p \in Procs |-> NoOp]
  /\ lock \in locks              \* possibly a sentinel left by a dead process
  /\ waited = [p \in Procs |-> 0]
  /\ file \in files
  /\ reg = [p \in Procs |-> EmptyRegistry]
  /\ result = [p \in Procs |-> NoResult]
  /\ hist = EmptyBag
  /\ histCrashed = EmptyBag

\* the registry file does not exist yet
RegInit(ins, rec, locks) == RegInitFile(ins, rec, locks, {MissingFile})

\* the age of the sentinel: 0 for one just created (and when there is none)
Untracked == 0 - 1
AgeIdle == lockAge = Untracked
AgeAfter(l) ==
  IF lockAge = Untracked THEN Untracked
  ELSE IF l = lock THEN lockAge
  ELSE 0

\* a process calls one of the exported registry functions; every one of them
\* starts with acquireLock(): const start = Date.now()
Begin(p) ==
  /\ alive[p] /\ pc[p] = "idle"
  /\ pc' = [pc EXCEPT ![p] = "create"]
  /\ waited' = [waited EXCEPT ![p] = 0]
  /\ op' = [op EXCEPT ![p] = NoOp]
  /\ result' = [result EXCEPT ![p] = NoResult]
  /\ UNCHANGED <<alive, lock, file, reg, inputs, recording, hist, histCrashed>>
  /\ UNCHANGED <<dmnVars, toolVars, extVars, corVars, cliVars, ageVars, startVars>>

\* acquireLock, line 69: writeFileSync(LOCK_PATH, pid, {flag: "wx"})
TryCreate(p) ==
  /\ alive[p] /\ pc[p] = "create"
  /\ IF lock = 0
       THEN /\ lock' = p
            /\ pc' = [pc EXCEPT ![p] = "read"]
            /\ waited' = [waited EXCEPT ![p] = 0]
       ELSE /\ pc' = [pc EXCEPT ![p] = "readLock"]
            /\ UNCHANGED <<lock, waited>>
  /\ UNCHANGED <<alive, op, file, reg, result, inputs, recording, hist, histCrashed>>
  /\ UNCHANGED <<dmnVars, toolVars, extVars, corVars, cliVars, startVars>>
  /\ lockAge' = AgeAfter(lock')

\* acquireLock, lines 74-76: read the sentinel and probe its owner
ReadLock(p) ==
  /\ alive[p] /\ pc[p] = "readLock"
  /\ pc' = [pc EXCEPT ![p] =
              IF lock # 0 /\ ~isProcessAlive(lock) THEN "unlinkStale" ELSE "timeout"]
  /\ UNCHANGED <<alive, op, lock, waited, file, reg, result, inputs, recording, hist, histCrashed>>
  /\ UNCHANGED <<dmnVars, toolVars, extVars, corVars, cliVars, ageVars, startVars>>

\* acquireLock, lines 77-78: unlinkSync(LOCK_PATH); continue.  When the file
\* is already gone unlinkSync throws into the catch of line 80.
UnlinkStale(p) ==
  /\ alive[p] /\ pc[p] = "unlinkStale"
  /\ IF lock # 0
       THEN lock' = 0 /\ pc' = [pc EXCEPT ![p] = "create"]
       ELSE lock' = lock /\ pc' = [pc EXCEPT ![p] = "timeout"]
  /\ UNCHANGED <<alive, op, waited, file, reg, result, inputs, recording, hist, histCrashed>>
  /\ UNCHANGED <<dmnVars, toolVars, extVars, corVars, cliVars, startVars>>
  /\ lockAge' = AgeAfter(lock')

\* variant: the waiter never force-breaks
CheckTimeout_NoBreak(p) ==
  /\ alive[p] /\ pc[p] = "timeout"
  /\ pc' = [pc EXCEPT ![p] = "create"]
  /\ UNCHANGED <<alive, op, lock, waited, file, reg, result, inputs, recording, hist, histCrashed>>
  /\ UNCHANGED <<dmnVars, toolVars, extVars, corVars, cliVars, ageVars, startVars>>

\* acquireLock, lines 83-95: force-break after maxWaitMs, else spin and retry
CheckTimeout(p) ==
  /\ alive[p] /\ pc[p] = "timeout"
  /\ lock' = IF TimedOut(p) THEN 0 ELSE lock
  /\ pc' = [pc EXCEPT ![p] = "create"]
  /\ UNCHANGED <<alive, op, waited, file, reg, result, inputs, recording, hist, histCrashed>>
  /\ UNCHANGED <<dmnVars, toolVars, extVars, corVars, cliVars, startVars>>
  /\ lockAge' = AgeAfter(lock')

\* time passes for every process inside acquireLock
Tick ==
  /\ \E p \in Procs : alive[p] /\ Acquiring(p) /\ waited[p] < AgeCap
  /\ waited' = [p \in Procs |->
                  IF alive[p] /\ Acquiring(p) /\ waited[p] < AgeCap
                    THEN waited[p] + 1 ELSE waited[p]]
  /\ UNCHANGED <<alive, pc, op, lock, file, reg, result, inputs, recording, hist, histCrashed>>
  /\ UNCHANGED <<dmnVars, toolVars, extVars, corVars, cliVars, startVars>>
  /\ lockAge' = IF lockAge = Untracked \/ lock = 0 \/ lockAge >= AgeCap
                  THEN lockAge ELSE lockAge + 1

\* const reg = readRegistry(), under the lock; a lookup computes its value
\* from it and leaves the try block
ReadStep(p) ==
  /\ alive[p] /\ pc[p] = "read"
  /\ \E o \in Ops :
       /\ o.kind \in inputs
       /\ (recording /\ o.kind \in MutatingKinds) => OpsUsed < MaxOps
       /\ op' = [op EXCEPT ![p] = o]
       /\ IF o.kind \in MutatingKinds
            THEN /\ reg' = [reg EXCEPT ![p] = readRegistry(file)]
                 /\ pc' = [pc EXCEPT ![p] = "apply"]
                 /\ UNCHANGED result
            ELSE /\ result' = [result EXCEPT ![p] = Lookup(o, readRegistry(file))]
                 /\ pc' = [pc EXCEPT ![p] = finallyRelease(FALSE)]
                 /\ UNCHANGED reg
  /\ UNCHANGED <<alive, lock, waited, file, inputs, recording, hist, histCrashed>>
  /\ UNCHANGED <<dmnVars, toolVars, extVars, corVars, cliVars, ageVars, startVars>>

\* result = fn(reg); writeRegistry(reg)
ApplyStep(p) ==
  /\ alive[p] /\ pc[p] = "apply"
  /\ LET c == Callback(op[p], reg[p]) IN
       /\ file' = withRegistry(file, c)
       /\ result' = [result EXCEPT ![p] = c.ret]
       /\ pc' = [pc EXCEPT ![p] = finallyRelease(c.threw)]
  /\ reg' = [reg EXCEPT ![p] = EmptyRegistry]
  /\ UNCHANGED <<alive, op, lock, waited, inputs, recording, hist, histCrashed>>
  /\ UNCHANGED <<dmnVars, toolVars, extVars, corVars, cliVars, ageVars, startVars>>

Committed(p) == op[p].kind \in MutatingKinds /\ result[p].status = "ok"

\* releaseLock() and return (or rethrow) to the caller
ReleaseStep(p) ==
  /\ alive[p] /\ pc[p] = "release"
  /\ lock' = releaseLock(lock)
  /\ pc' = [pc EXCEPT ![p] = "idle"]
  /\ hist' = IF recording /\ Committed(p) THEN hist (+) SetToBag({op[p]}) ELSE hist
  /\ op' = [op EXCEPT ![p] = NoOp]
  \* the caller is left with the outcome (returned or threw)
  /\ result' = [result EXCEPT ![p] = [NoResult EXCEPT !.status = result[p].status]]
  /\ UNCHANGED <<alive, waited, file, reg, inputs, recording, histCrashed>>
  /\ UNCHANGED <<dmnVars, toolVars, extVars, corVars, cliVars, startVars>>
  /\ lockAge' = AgeAfter(lock')

\* the process dies inside the critical section and leaves its sentinel
Crash(p) ==
  /\ alive[p] /\ pc[p] \in {"read", "apply", "release"}
  /\ Cardinality({q \in Procs : ~alive[q]}) < MaxCrashes
  /\ alive' = [alive EXCEPT ![p] = FALSE]
  /\ pc' = [pc EXCEPT ![p] = "dead"]
  /\ histCrashed' = IF recording /\ pc[p] = "release" /\ Committed(p)
                      THEN histCrashed (+) SetToBag({op[p]}) ELSE histCrashed
  /\ op' = [op EXCEPT ![p] = NoOp]
  /\ reg' = [reg EXCEPT ![p] = EmptyRegistry]
  /\ result' = [result EXCEPT ![p] = NoResult]
  /\ UNCHANGED <<lock, waited, file, inputs, recording, hist>>
  /\ UNCHANGED <<dmnVars, toolVars, extVars, corVars, cliVars, ageVars, startVars>>

RegNext ==
  \/ \E p \in Procs : Begin(p)
  \/ \E p \in Procs : TryCreate(p)
  \/ \E p \in Procs : ReadLock(p)
  \/ \E p \in Procs : UnlinkStale(p)
  \/ \E p \in Procs : CheckTimeout(p)
  \/ Tick
  \/ \E p \in Procs : ReadStep(p)
  \/ \E p \in Procs : ApplyStep(p)
  \/ \E p \in Procs : ReleaseStep(p)
  \/ \E p \in Procs : Crash(p)

\* ------------------------------------------------------------ daemon part
\* process.kill(pid, 0) succeeds for a daemon process that is running
DaemonAlive(pid) == pid \in Daemons /\ dpc[pid] \notin {"unborn", "exited"}

\* isDaemonRunning has returned false for d and d has not exited
PassedLockCheck(d) == dpc[d] \in {"create", "start", "wait", "supervise"}
\* the SIGINT / SIGTERM / exit handlers of start() are registered
HandlersSet(d) == dpc[d] \in {"start", "wait", "supervise"}

Sum(f, S) == LET RECURSIVE Add(_)
                 Add(T) == IF T = {} THEN 0
                           ELSE LET x == CHOOSE y \in T : TRUE
                                IN f[x] + Add(T \ {x})
             IN Add(S)

DaemonInit(exes) ==
  /\ pidFile \in {0, StaleDaemonPid}
  /\ spc = [s \in Procs |-> "exists"]
  /\ polls = [s \in Procs |-> 0]
  /\ dpc = [d \in Daemons |-> "unborn"]
  /\ handle = [d \in Daemons |-> "null"]
  /\ browsers = [d \in Daemons |-> 0]
  /\ portOwner = 0
  /\ exe \in exes
  /\ kills = 0

\* DaemonManager.isDaemonRunning, line 48: existsSync(DAEMON_LOCK_FILE)
SrvExists(s) ==
  /\ spc[s] = "exists"
  /\ spc' = [spc EXCEPT ![s] = IF pidFile = 0 THEN "spawn" ELSE "probe"]
  /\ UNCHANGED <<pidFile, polls, dpc, handle, browsers, portOwner, exe, kills>>
  /\ UNCHANGED <<regVars, toolVars, extVars, corVars, cliVars, ageVars, startVars>>

\* DaemonManager.isDaemonRunning, lines 53-56: read the pid, process.kill(pid, 0);
\* a live daemon makes ensureDaemonRunning return at once
SrvProbe(s) ==
  /\ spc[s] = "probe"
  /\ spc' = [spc EXCEPT ![s] =
               IF pidFile # 0 /\ DaemonAlive(pidFile) THEN "ready" ELSE "unlink"]
  /\ UNCHANGED <<pidFile, polls, dpc, handle, browsers, portOwner, exe, kills>>
  /\ UNCHANGED <<regVars, toolVars, extVars, corVars, cliVars, ageVars, startVars>>

\* DaemonManager.isDaemonRunning, line 59: unlinkSync in the catch block; when
\* the file is gone it throws ENOENT out of ensureDaemonRunning ("threw")
SrvUnlink(s) ==
  /\ spc[s] = "unlink"
  /\ spc' = [spc EXCEPT ![s] = IF pidFile # 0 THEN "spawn" ELSE "threw"]
  /\ pidFile' = 0
  /\ UNCHANGED <<polls, dpc, handle, browsers, portOwner, exe, kills>>
  /\ UNCHANGED <<regVars, toolVars, extVars, corVars, cliVars, ageVars, startVars>>

\* DaemonManager.startDaemon: spawn a detached daemon process
SrvSpawn(s) ==
  /\ spc[s] = "spawn"
  /\ \E d \in Daemons :
       /\ dpc[d] = "unborn"
       /\ dpc' = [dpc EXCEPT ![d] = "exists"]
  /\ spc' = [spc EXCEPT ![s] = "poll"]
  /\ polls' = [polls EXCEPT ![s] = 0]
  /\ UNCHANGED <<pidFile, handle, browsers, portOwner, exe, kills>>
  /\ UNCHANGED <<regVars, toolVars, extVars, corVars, cliVars, ageVars, startVars>>

\* variant: the loop returns after its first sleep without probing
SrvPoll_NoProbe(s) ==
  /\ spc[s] = "poll"
  /\ spc' = [spc EXCEPT ![s] = "ready"]
  /\ UNCHANGED <<pidFile, polls, dpc, handle, browsers, portOwner, exe, kills>>
  /\ UNCHANGED <<regVars, toolVars, extVars, corVars, cliVars, ageVars, startVars>>

\* ensureDaemonRunning, lines 36-44: the readiness loop.  A probe that finds
\* the endpoint returns; otherwise one step stands for PollStep failed probes
\* in a row (the probes only read, and never more than are left), and the
\* loop throws the timeout error ("failed") after PollLimit failed probes.
SrvPoll(s) ==
  /\ spc[s] = "poll"
  /\ IF portOwner # 0
       THEN spc' = [spc EXCEPT ![s] = "ready"] /\ UNCHANGED polls
       ELSE LET n == IF polls[s] + PollStep < PollLimit
                       THEN polls[s] + PollStep ELSE PollLimit
            IN /\ polls' = [polls EXCEPT ![s] = n]
               /\ spc' = [spc EXCEPT ![s] = IF n < PollLimit THEN "poll" ELSE "failed"]
  /\ UNCHANGED <<pidFile, dpc, handle, browsers, portOwner, exe, kills>>
  /\ UNCHANGED <<regVars, toolVars, extVars, corVars, cliVars, ageVars, startVars>>

\* ChromeDaemon.isDaemonRunning, line 60: existsSync(DAEMON_LOCK_FILE)
DExists(d) ==
  /\ dpc[d] = "exists"
  /\ dpc' = [dpc EXCEPT ![d] = IF pidFile = 0 THEN "create" ELSE "probe"]
  /\ UNCHANGED <<pidFile, spc, polls, handle, browsers, portOwner, exe, kills>>
  /\ UNCHANGED <<regVars, toolVars, extVars, corVars, cliVars, ageVars, startVars>>

\* variant: the exit handler is registered before the check, so the early
\* exit runs cleanup()
DProbe_CleanupOnExit(d) ==
  /\ dpc[d] = "probe"
  /\ dpc' = [dpc EXCEPT ![d] =
               IF pidFile # 0 /\ DaemonAlive(pidFile) THEN "exited" ELSE "unlink"]
  /\ pidFile' = IF pidFile # 0 /\ DaemonAlive(pidFile) THEN 0 ELSE pidFile
  /\ UNCHANGED <<spc, polls, handle, browsers, portOwner, exe, kills>>
  /\ UNCHANGED <<regVars, toolVars, extVars, corVars, cliVars, ageVars, startVars>>

\* ChromeDaemon.isDaemonRunning, lines 65-68, and start, lines 37-40: a live
\* owner makes this daemon exit (no exit handler is registered yet)
DProbe(d) ==
  /\ dpc[d] = "probe"
  /\ dpc' = [dpc EXCEPT ![d] =
               IF pidFile # 0 /\ DaemonAlive(pidFile) THEN "exited" ELSE "unlink"]
  /\ UNCHANGED <<pidFile, spc, polls, handle, browsers, portOwner, exe, kills>>
  /\ UNCHANGED <<regVars, toolVars, extVars, corVars, cliVars, ageVars, startVars>>

\* ChromeDaemon.isDaemonRunning, line 71: unlinkSync in the catch block; when
\* the file is gone it throws, start() rejects and the process dies
DUnlink(d) ==
  /\ dpc[d] = "unlink"
  /\ dpc' = [dpc EXCEPT ![d] = IF pidFile # 0 THEN "create" ELSE "exited"]
  /\ pidFile' = 0
  /\ UNCHANGED <<spc, polls, handle, browsers, portOwner, exe, kills>>
  /\ UNCHANGED <<regVars, toolVars, extVars, corVars, cliVars, ageVars, startVars>>

\* createLockFile: writeFileSync(DAEMON_LOCK_FILE, pid), then the handlers
DCreateLock(d) ==
  /\ dpc[d] = "create"
  /\ pidFile' = d
  /\ dpc' = [dpc EXCEPT ![d] = "start"]
  /\ UNCHANGED <<spc, polls, handle, browsers, portOwner, exe, kills>>
  /\ UNCHANGED <<regVars, toolVars, extVars, corVars, cliVars, ageVars, startVars>>

\* start, line 53: ensureChromeRunning -> startChrome up to the spawn; without
\* an executable startChrome logs and returns, and start sets the interval
DStart(d) ==
  /\ dpc[d] = "start"
  /\ IF exe
       THEN /\ browsers' = [browsers EXCEPT ![d] = @ + 1]
            /\ handle' = [handle EXCEPT ![d] = "proc"]
            /\ dpc' = [dpc EXCEPT ![d] = "wait"]
       ELSE /\ dpc' = [dpc EXCEPT ![d] = "supervise"]
            /\ UNCHANGED <<browsers, handle>>
  /\ UNCHANGED <<pidFile, spc, polls, portOwner, exe, kills>>
  /\ UNCHANGED <<regVars, toolVars, extVars, corVars, cliVars, ageVars, startVars>>

\* startChrome, lines 172-180: the readiness wait ends (ready or 30 tries),
\* start, line 56: setInterval
DWait(d) ==
  /\ dpc[d] = "wait"
  /\ dpc' = [dpc EXCEPT ![d] = "supervise"]
  /\ UNCHANGED <<pidFile, spc, polls, handle, browsers, portOwner, exe, kills>>
  /\ UNCHANGED <<regVars, toolVars, extVars, corVars, cliVars, ageVars, startVars>>

\* the interval fires: ensureChromeRunning starts a browser when there is no
\* process handle (with a handle it returns at once)
DHealthTick(d) ==
  /\ dpc[d] = "supervise"
  /\ handle[d] = "null" /\ exe
  /\ browsers[d] < MaxBrowsers
  /\ browsers' = [browsers EXCEPT ![d] = @ + 1]
  /\ handle' = [handle EXCEPT ![d] = "proc"]
  /\ UNCHANGED <<pidFile, spc, polls, dpc, portOwner, exe, kills>>
  /\ UNCHANGED <<regVars, toolVars, extVars, corVars, cliVars, ageVars, startVars>>

\* a browser of d binds the debug port and answers /json/version
BrowserUp(d) ==
  /\ browsers[d] > 0 /\ portOwner = 0
  /\ portOwner' = d
  /\ UNCHANGED <<pidFile, spc, polls, dpc, handle, browsers, exe, kills>>
  /\ UNCHANGED <<regVars, toolVars, extVars, corVars, cliVars, ageVars, startVars>>

\* variant: the 'exit' handler does not clear this.chromeProcess
BrowserExit_KeepHandle(d) ==
  /\ browsers[d] > 0
  /\ browsers' = [browsers EXCEPT ![d] = @ - 1]
  /\ portOwner' = IF portOwner = d /\ browsers[d] = 1 THEN 0 ELSE portOwner
  /\ UNCHANGED <<pidFile, spc, polls, dpc, handle, exe, kills>>
  /\ UNCHANGED <<regVars, toolVars, extVars, corVars, cliVars, ageVars, startVars>>

\* a browser of d exits; a running daemon's 'exit' handler clears the handle
BrowserExit(d) ==
  /\ browsers[d] > 0
  /\ browsers' = [browsers EXCEPT ![d] = @ - 1]
  /\ handle' = [handle EXCEPT ![d] = IF HandlersSet(d) THEN "null" ELSE @]
  /\ portOwner' = IF portOwner = d /\ browsers[d] = 1 THEN 0 ELSE portOwner
  /\ UNCHANGED <<pidFile, spc, polls, dpc, exe, kills>>
  /\ UNCHANGED <<regVars, toolVars, extVars, corVars, cliVars, ageVars, startVars>>

\* variant: shutdown() leaves the lock file in place
DSignal_NoCleanup(d) ==
  /\ HandlersSet(d)
  /\ browsers' = [browsers EXCEPT ![d] = IF handle[d] = "proc" THEN 0 ELSE @]
  /\ portOwner' = IF portOwner = d /\ handle[d] = "proc" THEN 0 ELSE portOwner
  /\ handle' = [handle EXCEPT ![d] = "null"]
  /\ dpc' = [dpc EXCEPT ![d] = "exited"]
  /\ UNCHANGED <<pidFile, spc, polls, exe, kills>>
  /\ UNCHANGED <<regVars, toolVars, extVars, corVars, cliVars, ageVars, startVars>>

\* SIGINT / SIGTERM: shutdown kills the browser, cleanup unlinks the lock
\* file if it exists, the process exits
DSignal(d) ==
  /\ HandlersSet(d)
  /\ browsers' = [browsers EXCEPT ![d] = IF handle[d] = "proc" THEN 0 ELSE @]
  /\ portOwner' = IF portOwner = d /\ handle[d] = "proc" THEN 0 ELSE portOwner
  /\ handle' = [handle EXCEPT ![d] = "null"]
  /\ pidFile' = 0
  /\ dpc' = [dpc EXCEPT ![d] = "exited"]
  /\ UNCHANGED <<spc, polls, exe, kills>>
  /\ UNCHANGED <<regVars, toolVars, extVars, corVars, cliVars, ageVars, startVars>>

\* the daemon dies without running a handler (SIGKILL, power loss): the lock
\* file and the detached browser stay
DKill(d) ==
  /\ dpc[d] \notin {"unborn", "exited"}
  /\ kills < MaxKills
  /\ kills' = kills + 1
  /\ dpc' = [dpc EXCEPT ![d] = "exited"]
  /\ UNCHANGED <<pidFile, spc, polls, handle, browsers, portOwner, exe>>
  /\ UNCHANGED <<regVars, toolVars, extVars, corVars, cliVars, ageVars, startVars>>

DaemonNext ==
  \/ \E s \in Procs : SrvExists(s)
  \/ \E s \in Procs : SrvProbe(s)
  \/ \E s \in Procs : SrvUnlink(s)
  \/ \E s \in Procs : SrvSpawn(s)
  \/ \E s \in Procs : SrvPoll(s)
  \/ \E d \in Daemons : DExists(d)
  \/ \E d \in Daemons : DProbe(d)
  \/ \E d \in Daemons : DUnlink(d)
  \/ \E d \in Daemons : DCreateLock(d)
  \/ \E d \in Daemons : DStart(d)
  \/ \E d \in Daemons : DWait(d)
  \/ \E d \in Daemons : DHealthTick(d)
  \/ \E d \in Daemons : BrowserUp(d)
  \/ \E d \in Daemons : BrowserExit(d)
  \/ \E d \in Daemons : DSignal(d)
  \/ \E d \in Daemons : DKill(d)

StartIdle == resolving = [d \in Daemons |-> 0]

\* a daemon configured with chromeExtensions: the interval fires and
\* ensureChromeRunning (lines 80-88) finds no process handle; startChrome
\* runs up to 'await resolveExtensions' (line 138) and yields
DTickResolve(d) ==
  /\ dpc[d] = "supervise"
  /\ handle[d] = "null" /\ exe
  /\ browsers[d] + resolving[d] < MaxBrowsers
  /\ resolving' = [resolving EXCEPT ![d] = @ + 1]
  /\ UNCHANGED <<regVars, dmnVars, toolVars, extVars, corVars, cliVars, ageVars>>

\* lines 155-169: resolveExtensions has settled; the call spawns its browser
\* and stores the handle
DSpawnResolved(d) ==
  /\ dpc[d] = "supervise"
  /\ resolving[d] > 0
  /\ resolving' = [resolving EXCEPT ![d] = @ - 1]
  /\ browsers' = [browsers EXCEPT ![d] = @ + 1]
  /\ handle' = [handle EXCEPT ![d] = "proc"]
  /\ UNCHANGED <<pidFile, spc, polls, dpc, portOwner, exe, kills>>
  /\ UNCHANGED <<regVars, toolVars, extVars, corVars, cliVars, ageVars>>

\* the daemons with extension resolution as a step of its own
OverlapNext ==
  \/ DaemonNext
  \/ \E d \in Daemons : DTickResolve(d)
  \/ \E d \in Daemons : DSpawnResolved(d)

\* the daemon files and processes as the registry specifications leave them
DaemonIdle ==
  /\ pidFile = 0
  /\ spc = [s \in Procs |-> "ready"]
  /\ polls = [s \in Procs |-> 0]
  /\ dpc = [d \in Daemons |-> "unborn"]
  /\ handle = [d \in Daemons |-> "null"]
  /\ browsers = [d \in Daemons |-> 0]
  /\ portOwner = 0
  /\ exe = TRUE
  /\ kills = 0

\* -------------------------------------------------------------- tool part
\* In this part a call of a registry function is one step: it reads the file,
\* applies its callback and writes the file with no other step in between.
regRest == <<alive, pc, op, lock, waited, reg, result, inputs, recording,
             hist, histCrashed>>

NoTab == [targetId |-> None, chromeTabId |-> 0]
\* Chrome's tab id of the page with CDP target id t
ChromeTabIdOf(t) == IF t = "t1" THEN 41 ELSE 42

ToolInit ==
  /\ tpc = [p \in Procs |-> "idle"]
  /\ targ = [p \in Procs |-> None]
  /\ tgroup = [p \in Procs |-> 0]
  /\ ttab = [p \in Procs |-> NoTab]
  /\ tvis = [p \in Procs |-> 0]
  /\ browserTabs = {}
  /\ visual = {}
  /\ tact = [p \in Procs |-> None]
  /\ tscope = [p \in Procs |-> {}]
  /\ tres = [p \in Procs |-> None]
  /\ closedTabs = {}

\* the file after registry call o, and what the call returns
FileAfter(o) == withRegistry(file, Callback(o, readRegistry(file)))

\* target ids the browser has not handed out yet
FreshTargets == TargetIds \ (browserTabs \cup closedTabs)

\* how a call of the handler ends: with its text, or with a thrown error
EndsWith(p, st, msg) ==
  /\ tpc' = [tpc EXCEPT ![p] = st]
  /\ tres' = [tres EXCEPT ![p] = msg]

\* browser_tab_group 'create': createTabGroup with a fresh id
GroupCreate(p) ==
  /\ tpc[p] = "idle"
  /\ \E g \in GroupIds \ DOMAIN readRegistry(file).groups :
       file' = FileAfter([NoOp EXCEPT !.kind = "createTabGroup", !.g = g])
  /\ UNCHANGED <<regRest, dmnVars, extVars, toolVars, corVars, cliVars, ageVars, startVars>>

\* browser_tab_group 'delete', screenshot.ts 254-311: deleteTabGroup drops the
\* group and its tab entries; with closeTabs (the default) the tabs it
\* returned are then closed, and a visual ungrouping that throws is swallowed.
\* For a group that does not exist deleteTabGroup throws and nothing changes.
GroupDelete(p) ==
  /\ tpc[p] = "idle"
  /\ \E g \in GroupIds, closeTabs \in BOOLEAN :
       LET c == Callback([NoOp EXCEPT !.kind = "deleteTabGroup", !.g = g],
                         readRegistry(file))
           shut == IF closeTabs THEN browserTabs \cap c.ret.ids ELSE {}
       IN /\ ~c.threw
          /\ file' = withRegistry(file, c)
          /\ browserTabs' = browserTabs \ shut
          /\ closedTabs' = closedTabs \cup shut
  /\ UNCHANGED <<regRest, dmnVars, extVars, tpc, targ, tgroup, ttab, tvis,
                 visual, tact, tscope, tres, corVars, cliVars, ageVars, startVars>>

\* the user closes a tab in the browser window
TabGone(t) ==
  /\ t \in browserTabs
  /\ browserTabs' = browserTabs \ {t}
  /\ closedTabs' = closedTabs \cup {t}
  /\ UNCHANGED <<regVars, dmnVars, extVars, tpc, targ, tgroup, ttab, tvis,
                 visual, tact, tscope, tres, corVars, cliVars, ageVars, startVars>>

\* case "new", lines 168-180: groupId is required; const group = getTabGroup(groupId)
NewGetGroup(p) ==
  /\ tpc[p] = "idle"
  /\ tact' = [tact EXCEPT ![p] = "new"]
  /\ \E g \in GroupIds \cup {None} :
       LET got == Lookup([NoOp EXCEPT !.kind = "getTabGroup", !.g = g],
                         readRegistry(file))
       IN /\ targ' = [targ EXCEPT ![p] = g]
          /\ IF g = None
               THEN EndsWith(p, "failed", "groupId is required") /\ UNCHANGED tgroup
             ELSE IF got.value = None
               THEN EndsWith(p, "failed", "Tab group not found") /\ UNCHANGED tgroup
               ELSE /\ tpc' = [tpc EXCEPT ![p] = "create"]
                    /\ tgroup' = [tgroup EXCEPT ![p] = got.count]
                    /\ UNCHANGED tres
  /\ ttab' = [ttab EXCEPT ![p] = NoTab]
  /\ UNCHANGED <<regVars, dmnVars, extVars, tvis, browserTabs, visual, tscope,
                 closedTabs, corVars, cliVars, ageVars, startVars>>

\* what the extension does to a call that goes through it: it is absent
\* (isTabGrouperAvailable is false), it answers, or evalOnExtension throws
\* (socket error, exception, timeout) before or after the extension has done
\* what was asked
ExtOutcomes == {"absent", "ok", "threwBefore", "threwAfter"}

\* variant: a throw of createTabViaExtension ends the call
NewCreateTab_NoFallback(p) ==
  /\ tpc[p] = "create"
  /\ \/ \E t \in FreshTargets, ext \in {"absent", "ok"} :
          /\ browserTabs' = browserTabs \cup {t}
          /\ ttab' = [ttab EXCEPT ![p] =
                        [targetId |-> t,
                         chromeTabId |-> IF ext = "ok" THEN ChromeTabIdOf(t) ELSE 0]]
          /\ tpc' = [tpc EXCEPT ![p] = "add"]
          /\ UNCHANGED tres
     \/ /\ EndsWith(p, "failed", "extension")
        /\ UNCHANGED <<ttab, browserTabs>>
     \/ /\ EndsWith(p, "failed", "browser")
        /\ UNCHANGED <<ttab, browserTabs>>
  /\ UNCHANGED <<regVars, dmnVars, extVars, targ, tgroup, tvis, visual, tact,
                 tscope, closedTabs, corVars, cliVars, ageVars, startVars>>

\* lines 182-206: the tab is created through the extension (targetId and
\* chromeTabId) or, without it or when it throws, through Playwright
\* (targetId only); when createTabViaExtension throws after the extension has
\* opened its tab (lines 583-587), that tab stays and Playwright opens another;
\* a failing Playwright create ends the call
NewCreateTab(p) ==
  /\ tpc[p] = "create"
  /\ \/ \E t \in FreshTargets, ext \in ExtOutcomes \ {"threwAfter"} :
          /\ browserTabs' = browserTabs \cup {t}
          /\ ttab' = [ttab EXCEPT ![p] =
                        [targetId |-> t,
                         chromeTabId |-> IF ext = "ok" THEN ChromeTabIdOf(t) ELSE 0]]
          /\ tpc' = [tpc EXCEPT ![p] = "add"]
          /\ UNCHANGED tres
     \/ \E t \in FreshTargets : \E u \in FreshTargets \ {t} :
          /\ browserTabs' = browserTabs \cup {t, u}
          /\ ttab' = [ttab EXCEPT ![p] = [targetId |-> u, chromeTabId |-> 0]]
          /\ tpc' = [tpc EXCEPT ![p] = "add"]
          /\ UNCHANGED tres
     \/ /\ EndsWith(p, "failed", "browser")
        /\ UNCHANGED <<ttab, browserTabs>>
  /\ UNCHANGED <<regVars, dmnVars, extVars, targ, tgroup, tvis, visual, tact,
                 tscope, closedTabs, corVars, cliVars, ageVars, startVars>>

\* getChromeTabId(targetId): the native tab handle stored with the tab entry,
\* 0 (undefined) when the entry has none or there is no entry
getChromeTabId(r, t) ==
  IF t \in DOMAIN r.tabs /\ "chromeTabId" \in DOMAIN r.tabs[t]
    THEN r.tabs[t].chromeTabId
    ELSE 0

\* line 209: addTabToGroup(resultTargetId, groupId, chromeTabId); the third
\* argument (field c of the call) is one the function does not declare; the
\* call is outside every try block, so its NotFound ends the handler
NewAddTab(p) ==
  /\ tpc[p] = "add"
  /\ LET o == [NoOp EXCEPT !.kind = "addTabToGroup", !.t = ttab[p].targetId,
                           !.g = targ[p], !.c = ttab[p].chromeTabId]
         c == Callback(o, readRegistry(file))
     IN /\ file' = withRegistry(file, c)
        /\ tpc' = [tpc EXCEPT ![p] =
                     IF c.threw THEN "failed"
                     ELSE IF ttab[p].chromeTabId # 0 THEN "groupVisually"
                     ELSE "done"]
        /\ tres' = [tres EXCEPT ![p] =
                      IF c.threw THEN "Tab group not found" ELSE "Tab created"]
  /\ UNCHANGED <<regRest, dmnVars, extVars, targ, tgroup, ttab, tvis,
                 browserTabs, visual, tact, tscope, closedTabs, corVars, cliVars, ageVars, startVars>>

\* the id chrome.tabs.group hands out for a new visual group
FreshVisual == Cardinality(visual) + 1

\* lines 215-222: groupTabsVisually(..., group.chromeGroupId): the extension
\* puts the tab into the group passed, or into a new group when none is
\* passed, and returns that group's id; any throw is swallowed (line 226)
NewGroupVisually(p) ==
  /\ tpc[p] = "groupVisually"
  /\ \/ /\ tgroup[p] = 0
        /\ Cardinality(visual) < MaxVisual
        /\ visual' = visual \cup {FreshVisual}
        /\ tvis' = [tvis EXCEPT ![p] = FreshVisual]
        /\ tpc' = [tpc EXCEPT ![p] = "setId"]
     \/ /\ tgroup[p] \in visual
        /\ tvis' = [tvis EXCEPT ![p] = tgroup[p]]
        /\ tpc' = [tpc EXCEPT ![p] = "setId"]
        /\ UNCHANGED visual
     \/ /\ tpc' = [tpc EXCEPT ![p] = "done"]
        /\ UNCHANGED <<visual, tvis>>
  /\ UNCHANGED <<regVars, dmnVars, extVars, targ, tgroup, ttab, browserTabs,
                 tact, tscope, tres, closedTabs, corVars, cliVars, ageVars, startVars>>

\* lines 223-225: if (!group.chromeGroupId) setChromeGroupId(groupId, result.groupId)
\* where group is still the object read at line 175
NewSetChromeGroupId(p) ==
  /\ tpc[p] = "setId"
  /\ file' = IF tgroup[p] = 0
               THEN FileAfter([NoOp EXCEPT !.kind = "setChromeGroupId",
                                           !.g = targ[p], !.c = tvis[p]])
               ELSE file
  /\ tpc' = [tpc EXCEPT ![p] = "done"]
  /\ UNCHANGED <<regRest, dmnVars, extVars, targ, tgroup, ttab, tvis,
                 browserTabs, visual, tact, tscope, tres, closedTabs, corVars, cliVars, ageVars, startVars>>

\* 'list', 'close' and 'select' start with getScopedTabs, line 86:
\* allTabs = await listPagesViaPlaywright(), kept in tscope
ScopeStart(p) ==
  /\ tpc[p] = "idle"
  /\ \E a \in {"list", "close", "select"}, g \in GroupIds \cup {None} :
       /\ tact' = [tact EXCEPT ![p] = a]
       /\ targ' = [targ EXCEPT ![p] = g]
  /\ tscope' = [tscope EXCEPT ![p] = browserTabs]
  /\ tpc' = [tpc EXCEPT ![p] = "prune"]
  /\ UNCHANGED <<regVars, dmnVars, extVars, tgroup, ttab, tvis, browserTabs,
                 visual, tres, closedTabs, corVars, cliVars, ageVars, startVars>>

\* where a call goes once its scoped list is known
AfterScope(p) == IF tact[p] = "list" THEN "done" ELSE "resolve"

\* lines 89-94: pruneStaleTargets(liveIds); without groupId all tabs are in scope
ScopePrune(p) ==
  /\ tpc[p] = "prune"
  /\ file' = FileAfter([NoOp EXCEPT !.kind = "pruneStaleTargets",
                                    !.live = tscope[p]])
  /\ IF targ[p] = None
       THEN EndsWith(p, AfterScope(p),
                     IF tact[p] = "list" THEN "listed" ELSE tres[p])
       ELSE tpc' = [tpc EXCEPT ![p] = "scope"] /\ UNCHANGED tres
  /\ UNCHANGED <<regRest, dmnVars, extVars, targ, tgroup, ttab, tvis,
                 browserTabs, visual, tact, tscope, closedTabs, corVars, cliVars, ageVars, startVars>>

\* lines 96-105: getTabGroup(groupId) must find the group; the scoped list is
\* allTabs filtered by getTabsInGroup(groupId)
ScopeGroup(p) ==
  /\ tpc[p] = "scope"
  /\ LET r == readRegistry(file)
     IN IF targ[p] \notin DOMAIN r.groups
          THEN EndsWith(p, "failed", "Tab group not found") /\ UNCHANGED tscope
          ELSE /\ tscope' = [tscope EXCEPT ![p] = @ \cap TabsOf(r, targ[p])]
               /\ EndsWith(p, AfterScope(p),
                           IF tact[p] = "list" THEN "listed" ELSE tres[p])
  /\ UNCHANGED <<regVars, dmnVars, extVars, targ, tgroup, ttab, tvis,
                 browserTabs, visual, tact, closedTabs, corVars, cliVars, ageVars, startVars>>

\* getGroupForTab(targetId), None for a tab without entry
GroupOfTab(r, t) ==
  Lookup([NoOp EXCEPT !.kind = "getGroupForTab", !.t = t], r).value

\* the arguments index / targetId of a call: a target id, an index into the
\* scoped list, or neither
TargetInputs == TargetIds \cup {"index", None}

\* variant: a targetId is taken as it is
ResolveTarget_NoCheck(p) ==
  /\ tpc[p] = "resolve"
  /\ LET r == readRegistry(file)
         Resolved(t) ==
           /\ ttab' = [ttab EXCEPT ![p] =
                         [targetId |-> t, chromeTabId |-> getChromeTabId(r, t)]]
           /\ tpc' = [tpc EXCEPT ![p] = "act"]
           /\ UNCHANGED tres
     IN \E i \in TargetInputs :
          IF i \in TargetIds
            THEN Resolved(i)
          ELSE IF i = "index"
            THEN \/ \E t \in tscope[p] : Resolved(t)
                 \/ EndsWith(p, "failed", "No tab at index") /\ UNCHANGED ttab
            ELSE EndsWith(p, "failed", "index or targetId is required")
                   /\ UNCHANGED ttab
  /\ UNCHANGED <<regVars, dmnVars, extVars, targ, tgroup, tvis, browserTabs,
                 visual, tact, tscope, closedTabs, corVars, cliVars, ageVars, startVars>>

\* resolveTarget, lines 109-135, and line 244: a targetId is accepted as it
\* is without groupId, and with groupId only if getGroupForTab gives that
\* group; an index picks from the scoped list; the stored native handle of
\* the tab is looked up
ResolveTarget(p) ==
  /\ tpc[p] = "resolve"
  /\ LET r == readRegistry(file)
         Resolved(t) ==
           /\ ttab' = [ttab EXCEPT ![p] =
                         [targetId |-> t, chromeTabId |-> getChromeTabId(r, t)]]
           /\ tpc' = [tpc EXCEPT ![p] = "act"]
           /\ UNCHANGED tres
     IN \E i \in TargetInputs :
          IF i \in TargetIds
            THEN IF targ[p] # None /\ GroupOfTab(r, i) # targ[p]
                   THEN EndsWith(p, "failed", "does not belong to group")
                          /\ UNCHANGED ttab
                   ELSE Resolved(i)
          ELSE IF i = "index"
            THEN \/ \E t \in tscope[p] : Resolved(t)
                 \/ EndsWith(p, "failed", "No tab at index") /\ UNCHANGED ttab
            ELSE EndsWith(p, "failed", "index or targetId is required")
                   /\ UNCHANGED ttab
  /\ UNCHANGED <<regVars, dmnVars, extVars, targ, tgroup, tvis, browserTabs,
                 visual, tact, tscope, closedTabs, corVars, cliVars, ageVars, startVars>>

\* variant: the registry entry is removed although the close failed
ActClose_RemoveOnFailure(p) ==
  /\ tpc[p] = "act" /\ tact[p] = "close"
  /\ LET t == ttab[p].targetId
     IN \/ /\ t \in browserTabs
           /\ browserTabs' = browserTabs \ {t}
           /\ closedTabs' = closedTabs \cup {t}
           /\ tpc' = [tpc EXCEPT ![p] = "remove"]
           /\ UNCHANGED <<tres, file>>
        \/ /\ EndsWith(p, "failed",
                       IF t \in browserTabs THEN "browser" ELSE "tab not found")
           /\ file' = FileAfter([NoOp EXCEPT !.kind = "removeTabFromGroup",
                                             !.t = t])
           /\ UNCHANGED <<browserTabs, closedTabs>>
  /\ UNCHANGED <<regRest, dmnVars, extVars, targ, tgroup, ttab, tvis, visual,
                 tact, tscope, corVars, cliVars, ageVars, startVars>>

\* 'close', lines 247-262: with a stored native handle the tab is closed
\* through the extension, and through Playwright when that throws; without
\* one through Playwright.  Playwright closes an open tab and throws for a
\* tab that is not there (also one the extension closed before its call threw).
ActClose(p) ==
  /\ tpc[p] = "act" /\ tact[p] = "close"
  /\ LET t == ttab[p].targetId
     IN \/ /\ t \in browserTabs
           /\ browserTabs' = browserTabs \ {t}
           /\ closedTabs' = closedTabs \cup {t}
           /\ \/ tpc' = [tpc EXCEPT ![p] = "remove"] /\ UNCHANGED tres
              \/ /\ ttab[p].chromeTabId # 0
                 /\ EndsWith(p, "failed", "tab not found")
        \/ /\ t \in browserTabs
           /\ EndsWith(p, "failed", "browser")
           /\ UNCHANGED <<browserTabs, closedTabs>>
        \/ /\ t \notin browserTabs
           /\ EndsWith(p, "failed", "tab not found")
           /\ UNCHANGED <<browserTabs, closedTabs>>
  /\ UNCHANGED <<regVars, dmnVars, extVars, targ, tgroup, ttab, tvis, visual,
                 tact, tscope, corVars, cliVars, ageVars, startVars>>

\* 'close', line 265: removeTabFromGroup(tid)
CloseRemove(p) ==
  /\ tpc[p] = "remove"
  /\ file' = FileAfter([NoOp EXCEPT !.kind = "removeTabFromGroup",
                                    !.t = ttab[p].targetId])
  /\ EndsWith(p, "done", "Tab closed")
  /\ UNCHANGED <<regRest, dmnVars, extVars, targ, tgroup, ttab, tvis,
                 browserTabs, visual, tact, tscope, closedTabs, corVars, cliVars, ageVars, startVars>>

\* 'select', lines 270-280: focusPageByTargetIdViaPlaywright
ActSelect(p) ==
  /\ tpc[p] = "act" /\ tact[p] = "select"
  /\ IF ttab[p].targetId \in browserTabs
       THEN EndsWith(p, "done", "Tab focused")
       ELSE EndsWith(p, "failed", "tab not found")
  /\ UNCHANGED <<regVars, dmnVars, extVars, targ, tgroup, ttab, tvis,
                 browserTabs, visual, tact, tscope, closedTabs, corVars, cliVars, ageVars, startVars>>

\* the handler returns its text (or has thrown); the next call may start
NewReturn(p) ==
  /\ tpc[p] \in {"done", "failed"}
  /\ tpc' = [tpc EXCEPT ![p] = "idle"]
  /\ targ' = [targ EXCEPT ![p] = None]
  /\ tgroup' = [tgroup EXCEPT ![p] = 0]
  /\ ttab' = [ttab EXCEPT ![p] = NoTab]
  /\ tvis' = [tvis EXCEPT ![p] = 0]
  /\ tact' = [tact EXCEPT ![p] = None]
  /\ tscope' = [tscope EXCEPT ![p] = {}]
  /\ tres' = [tres EXCEPT ![p] = None]
  /\ UNCHANGED <<regVars, dmnVars, extVars, browserTabs, visual, closedTabs, corVars, cliVars, ageVars, startVars>>

ToolNext ==
  \/ \E p \in Procs : GroupCreate(p)
  \/ \E p \in Procs : NewGetGroup(p)
  \/ \E p \in Procs : NewCreateTab(p)
  \/ \E p \in Procs : NewAddTab(p)
  \/ \E p \in Procs : NewGroupVisually(p)
  \/ \E p \in Procs : NewSetChromeGroupId(p)
  \/ \E p \in Procs : NewReturn(p)

\* one server process makes browser_tabs calls of every action, step by step,
\* while any process creates and deletes groups and the user closes tabs
Callers == {1}
BrowseNext ==
  \/ \E p \in Procs : GroupCreate(p)
  \/ \E p \in Procs : GroupDelete(p)
  \/ \E t \in TargetIds : TabGone(t)
  \/ \E p \in Callers : NewGetGroup(p)
  \/ \E p \in Callers : NewCreateTab(p)
  \/ \E p \in Callers : NewAddTab(p)
  \/ \E p \in Callers : NewGroupVisually(p)
  \/ \E p \in Callers : NewSetChromeGroupId(p)
  \/ \E p \in Callers : ScopeStart(p)
  \/ \E p \in Callers : ScopePrune(p)
  \/ \E p \in Callers : ScopeGroup(p)
  \/ \E p \in Callers : ResolveTarget(p)
  \/ \E p \in Callers : ActClose(p)
  \/ \E p \in Callers : CloseRemove(p)
  \/ \E p \in Callers : ActSelect(p)
  \/ \E p \in Callers : NewReturn(p)

\* both processes make 'new' calls while one of them also makes list, close
\* and select calls, each of which enumerates the live tabs and then prunes
ReconcileNext ==
  \/ \E p \in Procs : GroupCreate(p)
  \/ \E t \in TargetIds : TabGone(t)
  \/ \E p \in Procs : NewGetGroup(p)
  \/ \E p \in Procs : NewCreateTab(p)
  \/ \E p \in Procs : NewAddTab(p)
  \/ \E p \in Procs : NewGroupVisually(p)
  \/ \E p \in Procs : NewSetChromeGroupId(p)
  \/ \E p \in Callers : ScopeStart(p)
  \/ \E p \in Callers : ScopePrune(p)
  \/ \E p \in Callers : ScopeGroup(p)
  \/ \E p \in Callers : ResolveTarget(p)
  \/ \E p \in Callers : ActClose(p)
  \/ \E p \in Callers : CloseRemove(p)
  \/ \E p \in Callers : ActSelect(p)
  \/ \E p \in Procs : NewReturn(p)

\* createTabViaExtension step by step (chrome-tab-groups.ts 543-590), for the
\* calls of two processes in one browser.  part_000 line 186: the handler
\* asks isTabGrouperAvailable and takes the extension path or the Playwright
\* path (lines 199-204)
NewHasExtension(p) ==
  /\ tpc[p] = "create"
  /\ \E has \in BOOLEAN :
       tpc' = [tpc EXCEPT ![p] = IF has THEN "snap" ELSE "pw"]
  /\ UNCHANGED <<regVars, dmnVars, extVars, targ, tgroup, ttab, tvis,
                 browserTabs, visual, tact, tscope, tres, closedTabs, corVars, cliVars, ageVars, startVars>>

\* lines 548-555: the before-snapshot of the target ids; a response that is
\* not ok gives the empty snapshot
CtvSnapshot(p) ==
  /\ tpc[p] = "snap"
  /\ \E ok \in BOOLEAN :
       tscope' = [tscope EXCEPT ![p] = IF ok THEN browserTabs ELSE {}]
  /\ tpc' = [tpc EXCEPT ![p] = "extcreate"]
  /\ UNCHANGED <<regVars, dmnVars, extVars, targ, tgroup, ttab, tvis,
                 browserTabs, visual, tact, tres, closedTabs, corVars, cliVars, ageVars, startVars>>

\* lines 558-561: the extension opens the tab and answers with its native
\* tab id, or the call throws and the handler falls back (part_000 191-197)
CtvCreate(p) ==
  /\ tpc[p] = "extcreate"
  /\ \/ \E t \in FreshTargets :
          /\ browserTabs' = browserTabs \cup {t}
          /\ ttab' = [ttab EXCEPT ![p] =
                        [targetId |-> None, chromeTabId |-> ChromeTabIdOf(t)]]
          /\ tpc' = [tpc EXCEPT ![p] = "poll"]
     \/ /\ tpc' = [tpc EXCEPT ![p] = "pw"]
        /\ UNCHANGED <<ttab, browserTabs>>
  /\ UNCHANGED <<regVars, dmnVars, extVars, targ, tgroup, tvis, visual, tact,
                 tscope, tres, closedTabs, corVars, cliVars, ageVars, startVars>>

\* lines 564-587: the first page target of the list that is not in the
\* before-snapshot is taken (the list order is the browser's); twenty
\* attempts without one throw, and the handler falls back with no native id
CtvPoll(p) ==
  /\ tpc[p] = "poll"
  /\ \/ \E u \in browserTabs \ tscope[p] :
          /\ ttab' = [ttab EXCEPT ![p].targetId = u]
          /\ tpc' = [tpc EXCEPT ![p] = "add"]
     \/ /\ ttab' = [ttab EXCEPT ![p] = NoTab]
        /\ tpc' = [tpc EXCEPT ![p] = "pw"]
  /\ UNCHANGED <<regVars, dmnVars, extVars, targ, tgroup, tvis, browserTabs,
                 visual, tact, tscope, tres, closedTabs, corVars, cliVars, ageVars, startVars>>

\* part_000 lines 193-204: createPageViaPlaywright opens a tab and returns
\* its targetId; its failure ends the call
NewPwCreate(p) ==
  /\ tpc[p] = "pw"
  /\ \/ \E t \in FreshTargets :
          /\ browserTabs' = browserTabs \cup {t}
          /\ ttab' = [ttab EXCEPT ![p] = [targetId |-> t, chromeTabId |-> 0]]
          /\ tpc' = [tpc EXCEPT ![p] = "add"]
          /\ UNCHANGED tres
     \/ /\ EndsWith(p, "failed", "browser")
        /\ UNCHANGED <<ttab, browserTabs>>
  /\ UNCHANGED <<regVars, dmnVars, extVars, targ, tgroup, tvis, visual, tact,
                 tscope, closedTabs, corVars, cliVars, ageVars, startVars>>

\* 'new' calls of both processes with createTabViaExtension step by step
CreateNext ==
  \/ \E p \in Procs : GroupCreate(p)
  \/ \E t \in TargetIds : TabGone(t)
  \/ \E p \in Procs : NewGetGroup(p)
  \/ \E p \in Procs : NewHasExtension(p)
  \/ \E p \in Procs : CtvSnapshot(p)
  \/ \E p \in Procs : CtvCreate(p)
  \/ \E p \in Procs : CtvPoll(p)
  \/ \E p \in Procs : NewPwCreate(p)
  \/ \E p \in Procs : NewAddTab(p)
  \/ \E p \in Procs : NewGroupVisually(p)
  \/ \E p \in Procs : NewSetChromeGroupId(p)
  \/ \E p \in Procs : NewReturn(p)

\* --------------------------------------------------------- extension part
\* One server process runs several tool calls at once; each call of
\* findExtensionServiceWorker is a task that yields at every await, and the
\* tasks share the module-level cache.  A registry call is one step, as in
\* the tool part.
Endpoints == {"A", "B"}
Tasks == {1, 2}
\* the service-worker targets an endpoint can list: the companion extension's
\* worker and the worker of some other extension
Companion == "c"
Other == "o"
SwTargets == {Companion, Other}
\* a page of the companion extension: it has the chrome-extension:// origin
\* and the extension's functions, but its type is "page"
ExtPage == "p"
\* the id in the companion's chrome-extension:// URL
CompanionId == "e1"
MaxEnv == 1
MaxEvents == 2

\* webSocketDebuggerUrl of target t on endpoint e; NoUrl is null
Url(e, t) == [e |-> e, t |-> t]
NoUrl == [e |-> None, t |-> None]
UrlsOf(e, ts) == {Url(e, t) : t \in ts}

\* what a CDP reply to Runtime.evaluate can carry, and what the message
\* handler of evalOnExtension makes of it
Replies == {"value", "cdpError", "exception", "errorSubtype", "otherId",
            "garbage"}
OutcomeOf(m) ==
  CASE m = "value" -> "value"
    [] m = "cdpError" -> "CDP error"
    [] m \in {"exception", "errorSubtype"} -> "Extension error"

ExtInit(lists, ids) ==
  /\ listed \in lists
  /\ envc = 0
  /\ cachedSwUrl = NoUrl
  /\ cachedCdpBase = None
  /\ cachedExtensionId \in ids
  /\ fpc = [k \in Tasks |-> "idle"]
  /\ fkind = [k \in Tasks |-> None]
  /\ fe = [k \in Tasks |-> None]
  /\ fseen = [k \in Tasks |-> {}]
  /\ fret = [k \in Tasks |-> NoUrl]
  /\ outcome = [k \in Tasks |-> None]
  /\ timer = [k \in Tasks |-> FALSE]
  /\ events = [k \in Tasks |-> 0]

\* the extension part as the other specifications leave it
ExtIdle == ExtInit({[e \in Endpoints |-> {}]}, {None})

\* a service worker starts, or goes dormant and leaves /json/list
TargetAppear(e, t) ==
  /\ envc < MaxEnv /\ t \notin listed[e]
  /\ listed' = [listed EXCEPT ![e] = @ \cup {t}]
  /\ envc' = envc + 1
  /\ UNCHANGED <<cachedSwUrl, cachedCdpBase, cachedExtensionId, fpc, fkind, fe,
                 fseen, fret, outcome, timer, events>>
  /\ UNCHANGED <<regVars, dmnVars, toolVars, corVars, cliVars, ageVars, startVars>>

TargetVanish(e, t) ==
  /\ envc < MaxEnv /\ t \in listed[e]
  /\ listed' = [listed EXCEPT ![e] = @ \ {t}]
  /\ envc' = envc + 1
  /\ UNCHANGED <<cachedSwUrl, cachedCdpBase, cachedExtensionId, fpc, fkind, fe,
                 fseen, fret, outcome, timer, events>>
  /\ UNCHANGED <<regVars, dmnVars, toolVars, corVars, cliVars, ageVars, startVars>>

\* findExtensionServiceWorker returns u to its caller: isTabGrouperAvailable
\* is done; evalOnExtension throws ExtensionNotFoundError on null, and
\* otherwise arms the timer and opens the socket
Finish(k, u) ==
  /\ fret' = [fret EXCEPT ![k] = u]
  /\ IF fkind[k] = "call"
       THEN IF u = NoUrl
              THEN /\ fpc' = [fpc EXCEPT ![k] = "settled"]
                   /\ outcome' = [outcome EXCEPT ![k] = "ExtensionNotFoundError"]
                   /\ UNCHANGED timer
              ELSE /\ fpc' = [fpc EXCEPT ![k] = "pending"]
                   /\ timer' = [timer EXCEPT ![k] = TRUE]
                   /\ UNCHANGED outcome
       ELSE /\ fpc' = [fpc EXCEPT ![k] = "returned"]
            /\ UNCHANGED <<outcome, timer>>

\* what the tasks are: task 1 is any caller of findExtensionServiceWorker,
\* the others are isTabGrouperAvailable
KindsOf(k) == IF k = 1 THEN {"isAvailable", "call"} ELSE {"isAvailable"}

\* lines 78-86: a call starts; the cache is consulted only for its own endpoint
FindStart(k) ==
  /\ fpc[k] = "idle"
  /\ \E e \in Endpoints, kind \in KindsOf(k) :
       /\ fe' = [fe EXCEPT ![k] = e]
       /\ fkind' = [fkind EXCEPT ![k] = kind]
       /\ fpc' = [fpc EXCEPT ![k] =
                    IF cachedSwUrl # NoUrl /\ cachedCdpBase = e
                      THEN "validate" ELSE "scan"]
  /\ UNCHANGED <<listed, envc, cachedSwUrl, cachedCdpBase, cachedExtensionId,
                 fseen, fret, outcome, timer, events>>
  /\ UNCHANGED <<regVars, dmnVars, toolVars, corVars, cliVars, ageVars, startVars>>

\* variant: a cached handle is returned without looking at the target list
FindValidate_Trusting(k) ==
  /\ fpc[k] = "validate"
  /\ IF cachedSwUrl # NoUrl
       THEN Finish(k, cachedSwUrl) /\ UNCHANGED <<cachedSwUrl, cachedCdpBase>>
       ELSE /\ cachedSwUrl' = NoUrl
            /\ cachedCdpBase' = None
            /\ fpc' = [fpc EXCEPT ![k] = "scan"]
            /\ UNCHANGED <<fret, outcome, timer>>
  /\ UNCHANGED <<listed, envc, cachedExtensionId, fkind, fe, fseen, events>>
  /\ UNCHANGED <<regVars, dmnVars, toolVars, corVars, cliVars, ageVars, startVars>>

\* lines 87-103: the list is fetched; the handle now in the cache is returned
\* if the list has it, otherwise (also when the fetch fails) the cache is
\* cleared and the scan follows
FindValidate(k) ==
  /\ fpc[k] = "validate"
  /\ \E ok \in BOOLEAN :
       IF ok /\ cachedSwUrl \in UrlsOf(fe[k], listed[fe[k]])
         THEN Finish(k, cachedSwUrl) /\ UNCHANGED <<cachedSwUrl, cachedCdpBase>>
         ELSE /\ cachedSwUrl' = NoUrl
              /\ cachedCdpBase' = None
              /\ fpc' = [fpc EXCEPT ![k] = "scan"]
              /\ UNCHANGED <<fret, outcome, timer>>
  /\ UNCHANGED <<listed, envc, cachedExtensionId, fkind, fe, fseen, events>>
  /\ UNCHANGED <<regVars, dmnVars, toolVars, corVars, cliVars, ageVars, startVars>>

\* lines 105-119: the list is fetched for the scan; a failed fetch returns null
FindScan(k) ==
  /\ fpc[k] = "scan"
  /\ \E ok \in BOOLEAN :
       IF ok
         THEN /\ fseen' = [fseen EXCEPT ![k] = listed[fe[k]]]
              /\ fpc' = [fpc EXCEPT ![k] = "probe"]
              /\ UNCHANGED <<fret, outcome, timer>>
         ELSE Finish(k, NoUrl) /\ UNCHANGED fseen
  /\ UNCHANGED <<listed, envc, cachedSwUrl, cachedCdpBase, cachedExtensionId,
                 fkind, fe, events>>
  /\ UNCHANGED <<regVars, dmnVars, toolVars, corVars, cliVars, ageVars, startVars>>

\* a probe found the companion: both cache fields and the extension id are
\* set, the id is stored in the registry, the handle is returned
Found(k) ==
  /\ cachedSwUrl' = Url(fe[k], Companion)
  /\ cachedCdpBase' = fe[k]
  /\ cachedExtensionId' = CompanionId
  /\ file' = FileAfter([NoOp EXCEPT !.kind = "setExtensionId", !.x = CompanionId])
  /\ Finish(k, Url(fe[k], Companion))

\* variant: every listed target of the extension is probed, whatever its type
FindProbe_AnyType(k) ==
  /\ fpc[k] = "probe"
  /\ \/ \E t \in {Companion, ExtPage} \cap fseen[k] \cap listed[fe[k]] :
          /\ cachedSwUrl' = Url(fe[k], t)
          /\ cachedCdpBase' = fe[k]
          /\ cachedExtensionId' = CompanionId
          /\ file' = FileAfter([NoOp EXCEPT !.kind = "setExtensionId",
                                            !.x = CompanionId])
          /\ Finish(k, Url(fe[k], t))
     \/ /\ fpc' = [fpc EXCEPT ![k] = "decide"]
        /\ UNCHANGED <<cachedSwUrl, cachedCdpBase, cachedExtensionId, file,
                       fret, outcome, timer>>
  /\ UNCHANGED <<listed, envc, fkind, fe, fseen, events>>
  /\ UNCHANGED <<regRest, dmnVars, toolVars, corVars, cliVars, ageVars, startVars>>

\* lines 121-137: each candidate is probed for groupTabs; only the companion,
\* if it is still there, answers true; a probe that throws is skipped
FindProbe(k) ==
  /\ fpc[k] = "probe"
  /\ \/ /\ Companion \in fseen[k] \cap listed[fe[k]]
        /\ Found(k)
     \/ /\ fpc' = [fpc EXCEPT ![k] = "decide"]
        /\ UNCHANGED <<cachedSwUrl, cachedCdpBase, cachedExtensionId, file,
                       fret, outcome, timer>>
  /\ UNCHANGED <<listed, envc, fkind, fe, fseen, events>>
  /\ UNCHANGED <<regRest, dmnVars, toolVars, corVars, cliVars, ageVars, startVars>>

\* cachedExtensionId || getStoredExtensionId()
KnownId == 
  IF cachedExtensionId # None
    THEN cachedExtensionId
    ELSE Lookup([NoOp EXCEPT !.kind = "getExtensionId"], readRegistry(file)).value

\* wakeExtension, lines 201-204: the sender is a listed service worker whose
\* URL does not contain the extension id
HasSender(ts) == Other \in ts

\* variant: the wake is attempted without a sender
FindWakeDecide_NoSenderCheck(k) ==
  /\ fpc[k] = "decide"
  /\ IF KnownId = None
       THEN Finish(k, NoUrl) /\ UNCHANGED cachedExtensionId
       ELSE /\ cachedExtensionId' = KnownId
            /\ fpc' = [fpc EXCEPT ![k] = "waking"]
            /\ UNCHANGED <<fret, outcome, timer>>
  /\ UNCHANGED <<listed, envc, cachedSwUrl, cachedCdpBase, fkind, fe, fseen,
                 events>>
  /\ UNCHANGED <<regVars, dmnVars, toolVars, corVars, cliVars, ageVars, startVars>>

\* lines 141-149 and 201-204: without a known id, or without a sender among
\* the targets of the scan, null is returned
FindWakeDecide(k) ==
  /\ fpc[k] = "decide"
  /\ IF KnownId = None
       THEN Finish(k, NoUrl) /\ UNCHANGED cachedExtensionId
       ELSE /\ cachedExtensionId' = KnownId
            /\ IF HasSender(fseen[k])
                 THEN /\ fpc' = [fpc EXCEPT ![k] = "waking"]
                      /\ UNCHANGED <<fret, outcome, timer>>
                 ELSE Finish(k, NoUrl)
  /\ UNCHANGED <<listed, envc, cachedSwUrl, cachedCdpBase, fkind, fe, fseen,
                 events>>
  /\ UNCHANGED <<regVars, dmnVars, toolVars, corVars, cliVars, ageVars, startVars>>

\* wakeExtension, lines 206-248: the sender evaluates chrome.runtime.sendMessage
\* and answers, and 2500 ms pass; the message may start the companion's
\* worker.  A socket error or the 5 s timeout returns false.
FindWake(k) ==
  /\ fpc[k] = "waking"
  /\ \/ /\ Other \in listed[fe[k]]
        /\ fpc' = [fpc EXCEPT ![k] = "rescan"]
        /\ \E started \in BOOLEAN :
             listed' = IF started
                         THEN [listed EXCEPT ![fe[k]] = @ \cup {Companion}]
                         ELSE listed
        /\ UNCHANGED <<fret, outcome, timer>>
     \/ Finish(k, NoUrl) /\ UNCHANGED listed
  /\ UNCHANGED <<envc, cachedSwUrl, cachedCdpBase, cachedExtensionId, fkind, fe,
                 fseen, events>>
  /\ UNCHANGED <<regVars, dmnVars, toolVars, corVars, cliVars, ageVars, startVars>>

\* lines 150-178: the list is fetched again and the extension workers are
\* probed; the companion is returned if it answers, else null
FindRescan(k) ==
  /\ fpc[k] = "rescan"
  /\ \/ /\ Companion \in listed[fe[k]]
        /\ Found(k)
     \/ /\ Finish(k, NoUrl)
        /\ UNCHANGED <<cachedSwUrl, cachedCdpBase, cachedExtensionId, file>>
  /\ UNCHANGED <<listed, envc, fkind, fe, fseen, events>>
  /\ UNCHANGED <<regRest, dmnVars, toolVars, corVars, cliVars, ageVars, startVars>>

\* resolve(...) or reject(...) of the promise of evalOnExtension: the first
\* call settles it, later calls have no effect
Settle(k, o) ==
  /\ outcome' = [outcome EXCEPT ![k] = IF @ = None THEN o ELSE @]
  /\ fpc' = [fpc EXCEPT ![k] = "settled"]

RpcLive(k) ==
  /\ fpc[k] \in {"pending", "settled"}
  /\ fret[k] # NoUrl
  /\ events[k] < MaxEvents

\* lines 313-316: sock.on("error"): clearTimeout(timer); reject(err)
RpcError(k) ==
  /\ RpcLive(k)
  /\ events' = [events EXCEPT ![k] = @ + 1]
  /\ timer' = [timer EXCEPT ![k] = FALSE]
  /\ Settle(k, "socket error")
  /\ UNCHANGED <<listed, envc, cachedSwUrl, cachedCdpBase, cachedExtensionId,
                 fkind, fe, fseen, fret>>
  /\ UNCHANGED <<regVars, dmnVars, toolVars, corVars, cliVars, ageVars, startVars>>

\* variant: the timer is cleared before the request id is compared
RpcMessage_ClearFirst(k) ==
  /\ RpcLive(k)
  /\ events' = [events EXCEPT ![k] = @ + 1]
  /\ \E m \in Replies :
       /\ timer' = [timer EXCEPT ![k] = FALSE]
       /\ IF m \in {"otherId", "garbage"}
            THEN UNCHANGED <<outcome, fpc>>
            ELSE Settle(k, OutcomeOf(m))
  /\ UNCHANGED <<listed, envc, cachedSwUrl, cachedCdpBase, cachedExtensionId,
                 fkind, fe, fseen, fret>>
  /\ UNCHANGED <<regVars, dmnVars, toolVars, corVars, cliVars, ageVars, startVars>>

\* lines 332-364: sock.on("message"): unparsable data and replies to another
\* request are ignored; otherwise the timer is cleared and the reply settles
\* the call
RpcMessage(k) ==
  /\ RpcLive(k)
  /\ events' = [events EXCEPT ![k] = @ + 1]
  /\ \E m \in Replies :
       IF m \in {"otherId", "garbage"}
         THEN UNCHANGED <<outcome, fpc, timer>>
         ELSE /\ timer' = [timer EXCEPT ![k] = FALSE]
              /\ Settle(k, OutcomeOf(m))
  /\ UNCHANGED <<listed, envc, cachedSwUrl, cachedCdpBase, cachedExtensionId,
                 fkind, fe, fseen, fret>>
  /\ UNCHANGED <<regVars, dmnVars, toolVars, corVars, cliVars, ageVars, startVars>>

\* lines 306-309: the timer fires: sock.close(); reject("CDP evaluation timed out")
RpcTimeout(k) ==
  /\ timer[k]
  /\ timer' = [timer EXCEPT ![k] = FALSE]
  /\ Settle(k, "CDP evaluation timed out")
  /\ UNCHANGED <<listed, envc, cachedSwUrl, cachedCdpBase, cachedExtensionId,
                 fkind, fe, fseen, fret, events>>
  /\ UNCHANGED <<regVars, dmnVars, toolVars, corVars, cliVars, ageVars, startVars>>

\* the caller has its result or its error; the task is free again
TaskReturn(k) ==
  /\ fpc[k] \in {"returned", "settled"}
  /\ fpc' = [fpc EXCEPT ![k] = "idle"]
  /\ fkind' = [fkind EXCEPT ![k] = None]
  /\ fe' = [fe EXCEPT ![k] = None]
  /\ fseen' = [fseen EXCEPT ![k] = {}]
  /\ fret' = [fret EXCEPT ![k] = NoUrl]
  /\ outcome' = [outcome EXCEPT ![k] = None]
  /\ timer' = [timer EXCEPT ![k] = FALSE]
  /\ events' = [events EXCEPT ![k] = 0]
  /\ UNCHANGED <<listed, envc, cachedSwUrl, cachedCdpBase, cachedExtensionId>>
  /\ UNCHANGED <<regVars, dmnVars, toolVars, corVars, cliVars, ageVars, startVars>>

ExtNext ==
  \/ \E e \in Endpoints, t \in SwTargets : TargetAppear(e, t)
  \/ \E e \in Endpoints, t \in SwTargets : TargetVanish(e, t)
  \/ \E k \in Tasks : FindStart(k)
  \/ \E k \in Tasks : FindValidate(k)
  \/ \E k \in Tasks : FindScan(k)
  \/ \E k \in Tasks : FindProbe(k)
  \/ \E k \in Tasks : FindWakeDecide(k)
  \/ \E k \in Tasks : FindWake(k)
  \/ \E k \in Tasks : FindRescan(k)
  \/ \E k \in Tasks : RpcError(k)
  \/ \E k \in Tasks : RpcMessage(k)
  \/ \E k \in Tasks : RpcTimeout(k)
  \/ \E k \in Tasks : TaskReturn(k)

\* discovery alone: calls of findExtensionServiceWorker against target lists
\* that also hold a target that is not a service worker; an RPC call that
\* got its target ends by its timer
AvailNext ==
  \/ \E e \in Endpoints, t \in SwTargets \cup {ExtPage} : TargetAppear(e, t)
  \/ \E e \in Endpoints, t \in SwTargets \cup {ExtPage} : TargetVanish(e, t)
  \/ \E k \in Tasks : FindStart(k)
  \/ \E k \in Tasks : FindValidate(k)
  \/ \E k \in Tasks : FindScan(k)
  \/ \E k \in Tasks : FindProbe(k)
  \/ \E k \in Tasks : FindWakeDecide(k)
  \/ \E k \in Tasks : FindWake(k)
  \/ \E k \in Tasks : FindRescan(k)
  \/ \E k \in Tasks : RpcTimeout(k)
  \/ \E k \in Tasks : TaskReturn(k)

\* ------------------------------------------------------- correlation part
\* getChromeTabId(cdpUrl, url, title) and mapTargetIdsToChromeTabIds bridge
\* the targetIds of the debug protocol to native tab ids by url and title.
Urls == {"u1", "u2"}
Titles == {"", "a"}
MaxTabs == 3
\* the native tabs queryTabs can answer: ids are distinct, urls and titles
\* need not be
TabLists ==
  UNION {[1..n -> [id : {0}, url : Urls, title : Titles]] : n \in 0..MaxTabs}
WithIds(l) == [i \in 1..Len(l) |-> [l[i] EXCEPT !.id = 100 + i]]
NoCor == [state |-> "unset", id |-> 0]
NoCorMap == [state |-> "unset", ids |-> [t \in TargetIds |-> 0]]

CorInit(lists) ==
  /\ chromeTabs \in {WithIds(l) : l \in lists}
  /\ pageTargets \in [TargetIds -> [url : Urls, title : Titles]]
  /\ corHandle = [t \in TargetIds |-> NoCor]
  /\ corMap = NoCorMap
CorIdle ==
  /\ chromeTabs = <<>>
  /\ pageTargets = [t \in TargetIds |-> [url |-> "u1", title |-> ""]]
  /\ corHandle = [t \in TargetIds |-> NoCor]
  /\ corMap = NoCorMap

\* chrome-tab-groups.ts lines 418-427: the filter by url, the single match,
\* the title match among several when targetTitle is truthy (a title that is
\* missing or empty is not), and urlMatches[0]?.id ?? null (0 = null)
getChromeTabIdByUrl(tabs, targetUrl, targetTitle) ==
  LET urlMatches == SelectSeq(tabs, LAMBDA c : c.url = targetUrl)
      titleMatches == SelectSeq(urlMatches, LAMBDA c : c.title = targetTitle)
  IN  IF Len(urlMatches) = 1 THEN urlMatches[1].id
      ELSE IF Len(urlMatches) > 1 /\ targetTitle # "" /\ titleMatches # <<>>
        THEN titleMatches[1].id
      ELSE IF urlMatches # <<>> THEN urlMatches[1].id
      ELSE 0

\* lines 451-474 with the first candidate taken when no title matches
mapTargetIdsToChromeTabIds_PickFirst(tabs, targets) ==
  [t \in DOMAIN targets |->
     LET candidates == SelectSeq(tabs, LAMBDA c : c.url = targets[t].url)
         titleMatches ==
           SelectSeq(candidates, LAMBDA c : c.title = targets[t].title)
     IN  IF candidates = <<>> THEN 0
         ELSE IF Len(candidates) = 1 THEN candidates[1].id
         ELSE IF titleMatches # <<>> THEN titleMatches[1].id
         ELSE candidates[1].id]

\* lines 451-474: the index by url, then for each target the single
\* candidate or, among several, the first with the target's title; a target
\* without entry in the result has 0
mapTargetIdsToChromeTabIds(tabs, targets) ==
  [t \in DOMAIN targets |->
     LET candidates == SelectSeq(tabs, LAMBDA c : c.url = targets[t].url)
         titleMatches ==
           SelectSeq(candidates, LAMBDA c : c.title = targets[t].title)
     IN  IF candidates = <<>> THEN 0
         ELSE IF Len(candidates) = 1 THEN candidates[1].id
         ELSE IF titleMatches # <<>> THEN titleMatches[1].id
         ELSE 0]

\* a call of getChromeTabId for target t: queryTabs answers, or
\* evalOnExtension throws and the catch returns null (lines 428-430)
CorGetChromeTabId(t) ==
  /\ corHandle[t].state = "unset"
  /\ \E ok \in BOOLEAN :
       corHandle' = [corHandle EXCEPT ![t] =
          IF ok
            THEN [state |-> "done",
                  id |-> getChromeTabIdByUrl(chromeTabs, pageTargets[t].url,
                                             pageTargets[t].title)]
            ELSE [state |-> "threw", id |-> 0]]
  /\ UNCHANGED <<regVars, dmnVars, toolVars, extVars, chromeTabs, pageTargets,
                 corMap, cliVars, ageVars, startVars>>

\* a call of mapTargetIdsToChromeTabIds for all targets: queryTabs answers,
\* or evalOnExtension throws and the empty map is returned (lines 444-448)
CorMapTargets ==
  /\ corMap.state = "unset"
  /\ \E ok \in BOOLEAN :
       corMap' =
          IF ok
            THEN [state |-> "done",
                  ids |-> mapTargetIdsToChromeTabIds(chromeTabs, pageTargets)]
            ELSE [state |-> "threw", ids |-> [t \in TargetIds |-> 0]]
  /\ UNCHANGED <<regVars, dmnVars, toolVars, extVars, chromeTabs, pageTargets,
                 corHandle, cliVars, ageVars, startVars>>

CorNext ==
  \/ \E t \in TargetIds : CorGetChromeTabId(t)
  \/ CorMapTargets

\* ------------------------------------------------- daemon control command
\* src/daemon/cli.ts: the 'status' command of the daemon CLI, run by the
\* user while servers and daemons come and go
CliIdle == cliOut = None

\* getDaemonPid, lines 32-37: null without the file, else the pid in it
getDaemonPid == IF pidFile = 0 THEN 0 ELSE pidFile

\* statusDaemon, lines 74-85: "Not running" when getDaemonPid gives no pid,
\* "Running" otherwise
statusDaemon ==
  /\ cliOut = None
  /\ cliOut' = IF getDaemonPid = 0 THEN "Not running" ELSE "Running"
  /\ UNCHANGED <<regVars, dmnVars, toolVars, extVars, corVars, ageVars, startVars>>

\* the command has printed and exits
CliExit ==
  /\ cliOut # None
  /\ cliOut' = None
  /\ UNCHANGED <<regVars, dmnVars, toolVars, extVars, corVars, ageVars, startVars>>

CliNext ==
  \/ DaemonNext
  \/ statusDaemon
  \/ CliExit

vars == <<regVars, dmnVars, toolVars, extVars, corVars, cliVars, ageVars, startVars>>

Init == RegInit(CoreKinds, FALSE, {0, StalePid}) /\ DaemonIdle /\ ToolInit /\ StartIdle /\ AgeIdle /\ CliIdle /\ CorIdle /\ ExtIdle
Next == RegNext
Spec == Init /\ [][Next]_vars

\* the same program issuing the calls that touch the extension id
ExtKinds == {"createTabGroup", "addTabToGroup", "deleteTabGroup",
             "setExtensionId", "getExtensionId"}
InitExt == RegInit(ExtKinds, FALSE, {0, StalePid}) /\ DaemonIdle /\ ToolInit /\ StartIdle /\ AgeIdle /\ CliIdle /\ CorIdle /\ ExtIdle
SpecExt == InitExt /\ [][Next]_vars

\* the lock protocol under fair scheduling.  A process inside acquireLock
\* keeps executing its loop (it busy-waits, it never blocks), and a waiter
\* that finds the sentinel absent again and again is not beaten to the
\* create every time.  Nothing is assumed about a process that holds the
\* lock: it may stall for ever.
LockKinds == {"setExtensionId", "getExtensionId"}
InitLock == RegInit(LockKinds, FALSE, {0, StalePid}) /\ DaemonIdle /\ ToolInit /\ StartIdle /\ AgeIdle /\ CliIdle /\ CorIdle /\ ExtIdle
LoopFairness ==
  \A p \in Procs :
    /\ WF_vars(TryCreate(p)) /\ WF_vars(ReadLock(p))
    /\ WF_vars(UnlinkStale(p)) /\ WF_vars(CheckTimeout(p))
    /\ SF_vars(TryCreate(p) /\ lock = 0)
\* ... and time passes
FairSpec == InitLock /\ [][Next]_vars /\ LoopFairness /\ WF_vars(Tick)
\* ... and time may stand still
FairSpecNoClock == InitLock /\ [][Next]_vars /\ LoopFairness

\* only setExtensionId and getExtensionId are called, no fairness
SpecExtId == InitLock /\ [][Next]_vars

\* the lock protocol with the age of the sentinel tracked
InitAge == RegInit(LockKinds, FALSE, {0}) /\ DaemonIdle /\ ToolInit /\ StartIdle /\ CliIdle
           /\ CorIdle /\ ExtIdle /\ lockAge = 0
SpecAge == InitAge /\ [][Next]_vars

\* the registry file is missing or holds bytes that are not JSON
CorruptKinds == {"createTabGroup", "addTabToGroup", "deleteTabGroup",
                 "listTabGroups", "getGroupForTab", "getTabsInGroup",
                 "getTabGroup"}
InitCorrupt == RegInitFile(CorruptKinds, FALSE, {0}, {MissingFile, CorruptFile})
               /\ DaemonIdle /\ ToolInit /\ StartIdle /\ AgeIdle /\ CliIdle /\ CorIdle /\ ExtIdle
SpecCorrupt == InitCorrupt /\ [][Next]_vars

\* the same program with the history of returned operations kept
InitLin == RegInit(MutatingKinds \cup ReadKinds, TRUE, {0, StalePid}) /\ DaemonIdle /\ ToolInit /\ StartIdle /\ AgeIdle /\ CliIdle /\ CorIdle /\ ExtIdle
SpecLin == InitLin /\ [][Next]_vars

\* the daemon and the servers' startup; no registry call is made
InitDaemon == RegInit({}, FALSE, {0}) /\ DaemonInit({TRUE, FALSE}) /\ ToolInit /\ StartIdle /\ AgeIdle /\ CliIdle /\ CorIdle /\ ExtIdle
SpecDaemon == InitDaemon /\ [][DaemonNext]_vars
SpecCli == InitDaemon /\ [][CliNext]_vars
SpecOverlap == InitDaemon /\ [][OverlapNext]_vars

\* the daemon's own timers fire: the first start proceeds, the readiness wait
\* ends, the health interval keeps firing.  Nothing is assumed about the
\* servers, the browser or signals.
DaemonFairness ==
  \A d \in Daemons :
    WF_vars(DStart(d)) /\ WF_vars(DWait(d)) /\ WF_vars(DHealthTick(d))
FairSpecDaemon == InitDaemon /\ [][DaemonNext]_vars /\ DaemonFairness

\* the tool handlers of the server processes against one running browser
InitTool == RegInit({}, FALSE, {0}) /\ DaemonIdle /\ ToolInit /\ StartIdle /\ AgeIdle /\ CliIdle /\ CorIdle /\ ExtIdle
SpecTool == InitTool /\ [][ToolNext]_vars

\* all actions of browser_tabs, with groups deleted and tabs closed meanwhile
SpecBrowse == InitTool /\ [][BrowseNext]_vars
SpecCreate == InitTool /\ [][CreateNext]_vars
SpecReconcile == InitTool /\ [][ReconcileNext]_vars

\* extension discovery and extension calls of one server process; the server
\* may have been seeded with the extension id at start
InitExtn == RegInit({}, FALSE, {0}) /\ DaemonIdle /\ ToolInit /\ StartIdle /\ AgeIdle /\ CliIdle /\ CorIdle
            /\ ExtInit([Endpoints -> SUBSET SwTargets], {None, CompanionId})
SpecExtn == InitExtn /\ [][ExtNext]_vars
AvailLists ==
  {l \in [Endpoints -> SUBSET (SwTargets \cup {ExtPage})] : ExtPage \notin l["B"]}
InitAvail == RegInit({}, FALSE, {0}) /\ DaemonIdle /\ ToolInit /\ StartIdle /\ AgeIdle /\ CliIdle /\ CorIdle
             /\ ExtInit(AvailLists, {None, CompanionId})
SpecAvail == InitAvail /\ [][AvailNext]_vars

\* the two correlation functions applied to every list of native tabs and
\* every pair of targets within the bounds
InitCor == RegInit({}, FALSE, {0}) /\ DaemonIdle /\ ToolInit /\ StartIdle /\ AgeIdle /\ CliIdle /\ ExtIdle
           /\ CorInit(TabLists)
SpecCor == InitCor /\ [][CorNext]_vars

\* =========================================================================
\* Properties
\* =========================================================================

\* C1: mutual exclusion of the registry lock: no two processes are both
\* between their return from acquireLock and their call of releaseLock.
C1_MutualExclusion ==
  \A p, q \in Procs : p # q => ~(Holding(p) /\ Holding(q))

\* the registry files that applying the operations of bag b one after the
\* other, in any order, to file f can end with (each must return successfully)
RECURSIVE SeqFiles(_, _)
SeqFiles(b, f) ==
  IF BagToSet(b) = {}
    THEN {f}
    ELSE UNION { LET c == Callback(o, readRegistry(f)) IN
                   IF c.threw THEN {}
                   ELSE SeqFiles(b (-) SetToBag({o}), withRegistry(f, c))
                 : o \in BagToSet(b) }

Quiescent == \A p \in Procs : alive[p] => pc[p] = "idle"

\* C2: registry operations are linearizable: once every call has returned, the
\* registry file is the result of applying the successfully returned
\* operations (and any subset of those written by a process that died before
\* returning) in some sequential order.
C2_Linearizable ==
  Quiescent =>
    \E sub \in SubBag(histCrashed) : file \in SeqFiles(hist (+) sub, MissingFile)

IntegrityOf(r) == \A t \in DOMAIN r.tabs : r.tabs[t].groupId \in DOMAIN r.groups

\* C3: referential integrity: in every state of the registry file, every tab
\* entry's groupId is a key of the groups map.
C3_ReferentialIntegrity == IntegrityOf(file.json)

\* a cascading delete has just been written and tab entries of another group remain
C3_Witness ==
  \E p \in Procs :
    /\ pc[p] = "release" /\ op[p].kind = "deleteTabGroup"
    /\ result[p].ids # {}
    /\ DOMAIN file.json.tabs # {}

\* C5: the lock is released on every exit path: a process that is not inside
\* a registry call (its last call returned or threw) never owns the sentinel.
C5_ReleasedOnEveryExit ==
  \A p \in Procs : (alive[p] /\ pc[p] = "idle") => lock # p

\* a call has thrown 'Tab group not found' and the sentinel is gone
C5_Witness ==
  \E p \in Procs : pc[p] = "idle" /\ result[p].status = "NotFound" /\ lock = 0

\* p's callback runs against a registry in which the referenced group is absent
AbsentGroupCall(p) ==
  /\ pc[p] = "apply"
  /\ op[p].kind \in {"addTabToGroup", "deleteTabGroup"}
  /\ op[p].g \notin DOMAIN reg[p].groups

\* C8: addTabToGroup(t, g) and deleteTabGroup(g) with g absent throw
\* 'Tab group not found' and leave the registry file identical: the step
\* that runs the callback throws and writes nothing, and no other step of a
\* call writes the file.
C8_NotFoundChangesNothing ==
  [][ /\ \A p \in Procs :
           (AbsentGroupCall(p) /\ pc'[p] # "apply" /\ alive'[p]) =>
              (result'[p].status = "NotFound" /\ file' = file)
      /\ file' # file =>
           \E p \in Procs : pc[p] = "apply" /\ result'[p].status = "ok" ]_vars

\* a call on an absent group has thrown while the registry file holds a group
C8_Witness ==
  \E p \in Procs :
    /\ pc[p] = "release" /\ result[p].status = "NotFound"
    /\ DOMAIN file.json.groups # {}

\* C9: cascade delete: deleteTabGroup(g) on an existing g writes the registry
\* it read without g and without exactly the tab entries of g, returns those
\* targetIds, keeps every other group and tab entry, and afterwards
\* listTabGroups has no g and getTabsInGroup(g) is empty.
C9_CascadeDelete ==
  [][ \A p \in Procs :
        ( /\ pc[p] = "apply" /\ pc'[p] # "apply" /\ alive'[p]
          /\ op[p].kind = "deleteTabGroup"
          /\ op[p].g \in DOMAIN reg[p].groups ) =>
        LET g == op[p].g
            old == reg[p]
            gone == {t \in DOMAIN old.tabs : old.tabs[t].groupId = g}
            new == readRegistry(file')
        IN /\ result'[p].status = "ok"
           /\ result'[p].ids = gone
           /\ DOMAIN new.groups = (DOMAIN old.groups) \ {g}
           /\ \A h \in DOMAIN new.groups : new.groups[h] = old.groups[h]
           /\ DOMAIN new.tabs = (DOMAIN old.tabs) \ gone
           /\ \A t \in DOMAIN new.tabs : new.tabs[t] = old.tabs[t]
           /\ g \notin DOMAIN Lookup([NoOp EXCEPT !.kind = "listTabGroups"], new).counts
           /\ Lookup([NoOp EXCEPT !.kind = "getTabsInGroup", !.g = g], new).ids = {}
    ]_vars

\* a delete has removed one group's tab while another group keeps its tab
C9_Witness ==
  \E p \in Procs :
    /\ pc[p] = "release" /\ op[p].kind = "deleteTabGroup"
    /\ Cardinality(result[p].ids) = 1
    /\ Cardinality(DOMAIN file.json.tabs) = 1
    /\ Cardinality(DOMAIN file.json.groups) = 1

\* C10: pruneStaleTargets(live) removes exactly the tab entries whose targetId
\* is not in live, keeps the others, returns the number removed and never
\* changes the groups map.
C10_PruneExact ==
  [][ \A p \in Procs :
        ( /\ pc[p] = "apply" /\ pc'[p] # "apply" /\ alive'[p]
          /\ op[p].kind = "pruneStaleTargets" ) =>
        LET live == op[p].live
            old == reg[p]
            new == readRegistry(file')
        IN /\ result'[p].status = "ok"
           /\ DOMAIN new.tabs = {t \in DOMAIN old.tabs : t \in live}
           /\ \A t \in DOMAIN new.tabs : new.tabs[t] = old.tabs[t]
           /\ result'[p].count = Cardinality({t \in DOMAIN old.tabs : t \notin live})
           /\ new.groups = old.groups
    ]_vars

\* a prune has removed one entry and kept another
C10_Witness ==
  \E p \in Procs :
    /\ pc[p] = "release" /\ op[p].kind = "pruneStaleTargets"
    /\ result[p].count = 1
    /\ Cardinality(DOMAIN file.json.tabs) = 1

StaleSentinel == lock # 0 /\ ~alive[lock]

\* C7: stale-owner recovery: a waiter that reads a sentinel whose recorded
\* owner is dead goes on to delete it, whatever time it has waited, and with
\* time standing still a waiter facing a stale sentinel still comes to hold
\* the lock unless a live process took it first.
C7_StaleOwnerRecovery ==
  /\ \A p \in Procs :
       (alive[p] /\ Acquiring(p) /\ StaleSentinel) ~>
          (Holding(p) \/ (lock # 0 /\ alive[lock]))
  /\ [][ \A p \in Procs :
           (pc[p] = "readLock" /\ pc'[p] # "readLock" /\ StaleSentinel) =>
              pc'[p] = "unlinkStale" ]_vars
  /\ [][ \A p \in Procs :
           (pc[p] = "unlinkStale" /\ pc'[p] # "unlinkStale" /\ lock # 0) =>
              (lock' = 0 /\ pc'[p] = "create") ]_vars

\* a waiter that has not waited at all is about to delete a dead owner's sentinel
C7_Witness ==
  \E p \in Procs : pc[p] = "unlinkStale" /\ StaleSentinel /\ waited[p] = 0

\* C4: daemon singleton: at most one running daemon process has passed the
\* PID-lock check, and the running daemons together own at most one browser
\* process.
C4_DaemonSingleton ==
  /\ Cardinality({d \in Daemons : PassedLockCheck(d)}) <= 1
  /\ Sum(browsers, {d \in Daemons : DaemonAlive(d)}) <= 1

\* the three views of the tabs map, each as its own function computes it
ViewsAgree(r) ==
  LET groupOf(t) == Lookup([NoOp EXCEPT !.kind = "getGroupForTab", !.t = t], r).value
      tabsIn(g) == Lookup([NoOp EXCEPT !.kind = "getTabsInGroup", !.g = g], r).ids
      counts == Lookup([NoOp EXCEPT !.kind = "listTabGroups"], r).counts
  IN /\ \A g \in GroupIds : tabsIn(g) = {t \in TargetIds : groupOf(t) = g}
     /\ \A g, h \in GroupIds : g # h => tabsIn(g) \cap tabsIn(h) = {}
     /\ \A g \in DOMAIN counts :
          counts[g] = Cardinality({t \in TargetIds : groupOf(t) = g})

\* C11: single membership and consistent views: in every state of the file
\* getTabsInGroup(g) = {t : getGroupForTab(t) = g}, no tab is in two groups
\* and listTabGroups' tabCount is the size of that set; addTabToGroup(t, g2)
\* on an existing g2 makes getGroupForTab(t) = g2 and takes t out of every
\* other group's getTabsInGroup.
C11_SingleMembership ==
  /\ [](ViewsAgree(readRegistry(file)))
  /\ [][ \A p \in Procs :
           ( /\ pc[p] = "apply" /\ pc'[p] # "apply" /\ alive'[p]
             /\ op[p].kind = "addTabToGroup"
             /\ op[p].g \in DOMAIN reg[p].groups ) =>
           LET new == readRegistry(file')
               t == op[p].t
           IN /\ result'[p].status = "ok"
              /\ Lookup([NoOp EXCEPT !.kind = "getGroupForTab", !.t = t], new).value
                   = op[p].g
              /\ \A g \in GroupIds \ {op[p].g} :
                   t \notin Lookup([NoOp EXCEPT !.kind = "getTabsInGroup", !.g = g],
                                   new).ids
       ]_vars

\* an addTabToGroup is being applied to a tab that the registry read under the
\* lock attributes to another group
C11_Witness ==
  \E p \in Procs :
    /\ pc[p] = "apply" /\ op[p].kind = "addTabToGroup"
    /\ op[p].g \in DOMAIN reg[p].groups
    /\ op[p].t \in DOMAIN reg[p].tabs
    /\ reg[p].tabs[op[p].t].groupId # op[p].g

\* C12: chromeGroupId is write-once: no step changes a stored chromeGroupId
\* of a group to a different value.
C12_ChromeGroupIdWriteOnce ==
  [][ \A g \in DOMAIN file.json.groups :
        (file.json.groups[g].chromeGroupId # 0 /\ g \in DOMAIN file'.json.groups)
          => file'.json.groups[g].chromeGroupId = file.json.groups[g].chromeGroupId
    ]_vars

\* C13: the extension id is persisted: a getExtensionId call returns the
\* extensionId that the registry file it reads holds (null when the file
\* holds none), so after a setExtensionId(x) has written the file every later
\* getExtensionId returns x.
C13_ExtensionIdPersisted ==
  [][ \A p \in Procs :
        (pc[p] = "read" /\ pc'[p] # "read" /\ alive'[p]
           /\ op'[p].kind = "getExtensionId") =>
          result'[p].value = file.json.extensionId ]_vars

\* C14: the native tab handle is stored with the tab entry: once the 'new'
\* handler's addTabToGroup(t, g, h) has returned, getChromeTabId(t) is h; and
\* getChromeTabId of a targetId without a registry entry is undefined.
C14_NativeHandleStored ==
  /\ [][ \A p \in Procs :
           (tpc[p] = "add" /\ tpc'[p] \in {"groupVisually", "done"}) =>
             getChromeTabId(readRegistry(file'), ttab[p].targetId)
               = ttab[p].chromeTabId ]_vars
  /\ [](\A t \in TargetIds \ DOMAIN readRegistry(file).tabs :
          getChromeTabId(readRegistry(file), t) = 0)

\* C15: a missing or unparseable registry file is the empty registry and
\* never an error: a call that reads such a file returns null / empty from a
\* lookup and continues with {groups: {}, tabs: {}} in a mutation;
\* addTabToGroup and deleteTabGroup then throw NotFound and leave the file,
\* createTabGroup succeeds; and every write leaves a valid registry file.
C15_CorruptIsEmpty ==
  /\ [][ \A p \in Procs :
           (pc[p] = "read" /\ pc'[p] # "read" /\ alive'[p] /\ file.state # "ok") =>
             IF op'[p].kind \in MutatingKinds
               THEN reg'[p].groups = EmptyMap /\ reg'[p].tabs = EmptyMap
               ELSE /\ result'[p].status = "ok"
                    /\ result'[p].value = None /\ result'[p].ids = {}
                    /\ result'[p].counts = EmptyMap ]_vars
  /\ [][ \A p \in Procs :
           (pc[p] = "apply" /\ pc'[p] # "apply" /\ alive'[p]
              /\ reg[p].groups = EmptyMap /\ reg[p].tabs = EmptyMap) =>
             IF op[p].kind \in {"addTabToGroup", "deleteTabGroup"}
               THEN result'[p].status = "NotFound" /\ file' = file
               ELSE op[p].kind = "createTabGroup" =>
                      /\ result'[p].status = "ok"
                      /\ file'.state = "ok"
                      /\ DOMAIN file'.json.groups = {op[p].g}
                      /\ file'.json.tabs = EmptyMap ]_vars
  /\ [][ file' # file => (file'.state = "ok" /\ IntegrityOf(file'.json)) ]_vars

\* a lookup has returned from reading a file that is not JSON, and the file
\* is still in that state
C15_Witness ==
  \E p \in Procs :
    /\ pc[p] = "release" /\ op[p].kind = "getTabsInGroup"
    /\ result[p].status = "ok" /\ file.state = "corrupt"

\* C16: group ids never collide: the id a createTabGroup call writes is not a
\* key of the groups map it read, so the call overwrites no group and the
\* registry it writes has exactly one group more than the one it read.
C16_GroupIdsNeverCollide ==
  [][ \A p \in Procs :
        (pc[p] = "apply" /\ pc'[p] # "apply" /\ alive'[p]
           /\ op[p].kind = "createTabGroup") =>
          /\ op[p].g \notin DOMAIN reg[p].groups
          /\ Cardinality(DOMAIN file'.json.groups)
               = Cardinality(DOMAIN reg[p].groups) + 1 ]_vars

\* C17: removeTabFromGroup(t) is idempotent: it never throws, whether or not
\* t has an entry; the registry it writes is the one it read without t's
\* entry, with the groups map and every other tab entry unchanged; applying
\* it again to that registry changes nothing; and getGroupForTab(t) is then
\* null.
C17_RemoveIdempotent ==
  [][ \A p \in Procs :
        (pc[p] = "apply" /\ pc'[p] # "apply" /\ alive'[p]
           /\ op[p].kind = "removeTabFromGroup") =>
          LET old == reg[p]
              new == readRegistry(file')
              t == op[p].t
              again == Callback(op[p], new)
          IN /\ result'[p].status = "ok"
             /\ new.groups = old.groups
             /\ DOMAIN new.tabs = (DOMAIN old.tabs) \ {t}
             /\ \A u \in DOMAIN new.tabs : new.tabs[u] = old.tabs[u]
             /\ ~again.threw /\ again.reg = new
             /\ Lookup([NoOp EXCEPT !.kind = "getGroupForTab", !.t = t], new).value
                  = None ]_vars

\* a removeTabFromGroup of a targetId the registry has no entry for is being
\* applied while another tab is registered
C17_Witness ==
  \E p \in Procs :
    /\ pc[p] = "apply" /\ op[p].kind = "removeTabFromGroup"
    /\ op[p].t \notin DOMAIN reg[p].tabs
    /\ DOMAIN reg[p].tabs # {}

\* ensureDaemonRunning returns to server s in this step
Returns(s) == spc[s] # "ready" /\ spc'[s] = "ready"

\* C18 (as claimed): whenever ensureDaemonRunning returns without throwing,
\* the browser's debug endpoint answers the version-info probe, on the
\* spawn-and-poll path and on the live-PID-lock path alike.
C18_ReturnImpliesReachable ==
  [][ \A s \in Procs : Returns(s) => portOwner # 0 ]_vars

\* C18 (amended): ensureDaemonRunning returns without throwing only from its
\* readiness loop at a probe the debug endpoint answered, or from the
\* running-check when the PID lock names a live process.
C18_ReturnImpliesReachableOrLive ==
  [][ \A s \in Procs :
        Returns(s) =>
          \/ spc[s] = "poll" /\ portOwner # 0
          \/ spc[s] = "probe" /\ pidFile # 0 /\ DaemonAlive(pidFile) ]_vars

\* a server has returned while the daemon named by the PID lock has not yet
\* brought up a browser and nothing answers on the debug port
C18_Witness ==
  \E s \in Procs :
    /\ spc[s] = "ready" /\ portOwner = 0
    /\ pidFile # 0 /\ DaemonAlive(pidFile)
    /\ dpc[pidFile] \in {"start", "wait"}

\* the running-check of server s finds no live process in the PID lock
NotRunningFound(s) ==
  \/ spc[s] = "exists" /\ pidFile = 0
  \/ spc[s] = "probe" /\ ~(pidFile # 0 /\ DaemonAlive(pidFile))

\* C19: ensureDaemonRunning is bounded and spawns at most once: with a live
\* process in the PID lock it returns at once and spawns nothing; otherwise
\* it goes on to spawn exactly one daemon (it does not end any other way
\* before the spawn); it makes at most PollLimit probes; and it throws the
\* timeout error exactly when PollLimit probes have failed.
C19_BoundedSingleSpawn ==
  /\ [][ \A s \in Procs :
           (spc[s] = "probe" /\ spc'[s] # "probe"
              /\ pidFile # 0 /\ DaemonAlive(pidFile)) =>
             (spc'[s] = "ready" /\ dpc' = dpc) ]_vars
  /\ [][ \A s \in Procs :
           (NotRunningFound(s) /\ spc'[s] # spc[s]) =>
             spc'[s] \in {"spawn", "unlink"} ]_vars
  /\ [][ \A s \in Procs :
           (spc[s] = "unlink" /\ spc'[s] # "unlink") => spc'[s] = "spawn" ]_vars
  /\ [][ \A s \in Procs :
           (spc[s] = "spawn" /\ spc'[s] # "spawn") =>
             /\ spc'[s] = "poll"
             /\ Cardinality({d \in Daemons : dpc[d] = "unborn" /\ dpc'[d] # "unborn"}) = 1
       ]_vars
  /\ [](\A s \in Procs :
          /\ polls[s] <= PollLimit
          /\ spc[s] = "failed" <=> (polls[s] = PollLimit))

\* the PID lock file exists and the pid recorded in it is not a live process
StaleDaemonLock == pidFile # 0 /\ ~DaemonAlive(pidFile)

\* C20: a stale daemon PID lock never blocks a start: a running-check (of a
\* starting daemon or of ensureDaemonRunning) that finds the recorded pid dead
\* goes on to delete the file and reports not running, so the daemon goes on
\* to create a fresh lock and the server goes on to spawn a daemon.
C20_StaleLockRecovered ==
  /\ [][ \A s \in Procs :
           /\ (spc[s] = "probe" /\ spc'[s] # "probe" /\ StaleDaemonLock)
                => spc'[s] = "unlink"
           /\ (spc[s] = "unlink" /\ spc'[s] # "unlink")
                => spc'[s] = "spawn" /\ pidFile' = 0 ]_vars
  /\ [][ \A d \in Daemons :
           /\ (dpc[d] = "probe" /\ dpc'[d] # "probe" /\ kills' = kills
                 /\ StaleDaemonLock)
                => dpc'[d] = "unlink"
           /\ (dpc[d] = "unlink" /\ dpc'[d] # "unlink" /\ kills' = kills)
                => dpc'[d] = "create" /\ pidFile' = 0 ]_vars

\* C21: crash restart: whenever a daemon that is not shutting down has an
\* executable and no live browser child (it has not spawned one yet, or the
\* child has exited), it comes to spawn one at a health tick, unless the
\* daemon itself ends first; this holds after every exit of a browser.
C21_CrashRestart ==
  \A d \in Daemons :
    (exe /\ HandlersSet(d) /\ browsers[d] = 0) ~>
       (browsers[d] > 0 \/ dpc[d] = "exited")

\* a supervising daemon's browser has exited and the next tick is due
C21_Witness ==
  \E d \in Daemons :
    dpc[d] = "supervise" /\ exe /\ handle[d] = "null" /\ browsers[d] = 0

\* C22: health-probe-driven restart: at a health tick of a supervising daemon
\* whose debug endpoint answers nobody, the browser is respawned, also while
\* the daemon still holds the handle of a child that has not reported exit.
C22_UnreachableRespawned ==
  \A d \in Daemons :
    (dpc[d] = "supervise" /\ exe /\ portOwner = 0 /\ browsers[d] < MaxBrowsers)
       => ENABLED DHealthTick(d)

\* C23: executable-not-found is fatal: when no browser executable is found,
\* no daemon stays alive in its health interval holding the PID lock.
C23_NoExecutableIsFatal ==
  \A d \in Daemons :
    ~exe => ~(dpc[d] = "supervise" /\ pidFile = d)

\* C24: daemon shutdown: a daemon that takes SIGINT or SIGTERM with its
\* handlers installed kills the browser child it holds, removes the PID lock
\* file and exits, all in one run of shutdown(); a daemon that has exited stays
\* exited and gains no browser; and while no daemon was killed outright, the
\* lock file never names a daemon that has exited.
C24_Shutdown ==
  /\ [](kills = 0 => \A d \in Daemons : dpc[d] = "exited" => pidFile # d)
  /\ [][\A d \in Daemons :
          /\ (HandlersSet(d) /\ dpc'[d] = "exited" /\ kills' = kills)
                => /\ pidFile' = 0
                   /\ handle[d] = "proc" => browsers'[d] = 0
          /\ dpc[d] = "exited"
                => dpc'[d] = "exited" /\ browsers'[d] <= browsers[d]]_vars

\* every daemon has exited without being killed outright, after at least one
\* of them held the lock or brought a browser up for a server
C24_Witness ==
  /\ exe /\ kills = 0 /\ pidFile = 0
  /\ \A d \in Daemons : dpc[d] = "exited" /\ browsers[d] = 0
  /\ \E s \in Procs : spc[s] = "ready"

\* C25: every extension call settles exactly once, with one of five outcomes:
\* the value, ExtensionNotFoundError (exactly when discovery found no target),
\* the socket error, an 'Extension error', or 'CDP evaluation timed out'; a
\* call that waits has its timer armed; an outcome once set is not changed
\* by later events.
FiveOutcomes == {"value", "ExtensionNotFoundError", "socket error",
                 "Extension error", "CDP evaluation timed out"}
C25_FiveOutcomesOnce ==
  /\ [](\A k \in Tasks :
          /\ fpc[k] = "settled" =>
               /\ outcome[k] \in FiveOutcomes
               /\ outcome[k] = "ExtensionNotFoundError" <=> fret[k] = NoUrl
          /\ fpc[k] = "pending" => timer[k] /\ outcome[k] = None)
  /\ [][\A k \in Tasks :
          outcome[k] # None => outcome'[k] = outcome[k] \/ fpc'[k] = "idle"]_vars

\* C25 (amended): the same with a sixth outcome, 'CDP error: ...', for a reply
\* that carries a protocol error.
SixOutcomes == FiveOutcomes \cup {"CDP error"}
C25_SixOutcomesOnce ==
  /\ [](\A k \in Tasks :
          /\ fpc[k] = "settled" =>
               /\ outcome[k] \in SixOutcomes
               /\ outcome[k] = "ExtensionNotFoundError" <=> fret[k] = NoUrl
          /\ fpc[k] = "pending" => timer[k] /\ outcome[k] = None)
  /\ [][\A k \in Tasks :
          outcome[k] # None => outcome'[k] = outcome[k] \/ fpc'[k] = "idle"]_vars

\* a call was settled by a protocol error and a further event has arrived
C25_Witness ==
  \E k \in Tasks :
    fpc[k] = "settled" /\ outcome[k] = "CDP error" /\ events[k] = MaxEvents

\* C26: wake protocol: a wake is attempted only after a scan that found no
\* responsive companion, with an extension id known and another service worker
\* among the scanned targets to relay; the rescan happens only after the relay
\* has answered; the rescan returns the companion's target only if the
\* companion is then listed; and with no id known or no relay target the
\* discovery returns null without rescanning.
C26_WakeProtocol ==
  [][\A k \in Tasks :
       /\ (fpc'[k] = "waking" /\ fpc[k] # "waking")
            => /\ fpc[k] = "decide"
               /\ KnownId # None /\ cachedExtensionId' = KnownId
               /\ Other \in fseen[k]
       /\ (fpc'[k] = "rescan" /\ fpc[k] # "rescan")
            => fpc[k] = "waking" /\ Other \in listed[fe[k]]
       /\ (fpc[k] = "rescan" /\ fret'[k] # NoUrl)
            => /\ Companion \in listed[fe[k]]
               /\ fret'[k] = Url(fe[k], Companion)
       /\ (fpc[k] = "decide" /\ fpc'[k] # "decide"
             /\ (KnownId = None \/ Other \notin fseen[k]))
            => fret'[k] = NoUrl /\ fpc'[k] \in {"returned", "settled"}]_vars

\* the relay has answered and the companion, absent from the scan, is now
\* listed for the rescan
C26_Witness ==
  \E k \in Tasks :
    /\ fpc[k] = "rescan"
    /\ Companion \in listed[fe[k]] /\ Companion \notin fseen[k]

\* C27: discovery cache validation: the cached handle is returned only to a
\* discovery for the endpoint it was cached for and only while that endpoint
\* lists it; in every other case (another endpoint, target gone, fetch failed)
\* the cache is cleared and the scan is run; no handle is returned that its
\* endpoint does not list.
C27_CacheValidatedOrCleared ==
  [][\A k \in Tasks :
       /\ (fpc[k] = "validate" /\ fret'[k] # NoUrl)
            => /\ cachedCdpBase = fe[k]
               /\ fret'[k] = cachedSwUrl
               /\ fret'[k] \in UrlsOf(fe[k], listed[fe[k]])
       /\ (\/ fpc[k] = "idle" /\ fpc'[k] \notin {"idle", "validate"}
           \/ fpc[k] = "validate" /\ fpc'[k] # "validate" /\ fret'[k] = NoUrl)
            => /\ fpc'[k] = "scan"
               /\ cachedSwUrl' = NoUrl /\ cachedCdpBase' = None
       /\ (fret[k] = NoUrl /\ fret'[k] # NoUrl)
            => fret'[k] \in UrlsOf(fe[k], listed[fe[k]])]_vars

\* C27 (amended): as above, except that a discovery for another endpoint than
\* the cached one leaves the cache as it is and runs the scan; the cache is
\* cleared when the target is gone or the fetch failed.
C27_CacheValidated ==
  [][\A k \in Tasks :
       /\ (fpc[k] = "validate" /\ fret'[k] # NoUrl)
            => /\ cachedCdpBase = fe[k]
               /\ fret'[k] = cachedSwUrl
               /\ fret'[k] \in UrlsOf(fe[k], listed[fe[k]])
       /\ (fpc[k] = "validate" /\ fpc'[k] # fpc[k] /\ fret'[k] = NoUrl)
            => /\ fpc'[k] = "scan"
               /\ cachedSwUrl' = NoUrl /\ cachedCdpBase' = None
       /\ (fpc[k] = "idle" /\ fpc'[k] # fpc[k])
            => /\ UNCHANGED <<cachedSwUrl, cachedCdpBase>>
               /\ fpc'[k] = "scan" <=> (cachedSwUrl = NoUrl \/ cachedCdpBase # fe'[k])
       /\ (fret[k] = NoUrl /\ fret'[k] # NoUrl)
            => fret'[k] \in UrlsOf(fe[k], listed[fe[k]])]_vars

\* a discovery got the cached handle back without scanning, while the other
\* task works on the other endpoint
C27_Witness ==
  \E k \in Tasks, j \in Tasks :
    /\ fpc[k] \in {"returned", "pending"}
    /\ fret[k] # NoUrl /\ fseen[k] = {}
    /\ j # k /\ fpc[j] = "scan" /\ fe[j] # fe[k] /\ cachedSwUrl = fret[k]

\* C28: visual grouping is best-effort: no call of browser_tabs fails for a
\* reason other than a missing groupId, group, tab or index (or a failing
\* browser primitive); a call that fails with 'Tab group not found' names a
\* group the registry does not have, one that fails with 'tab not found' a tab
\* that is not open; whatever the extension did, a created tab goes on to
\* addTabToGroup, which registers it if the group exists, and a closed tab goes
\* on to removeTabFromGroup, which removes its entry.
MissingIdErrors == {"groupId is required", "Tab group not found",
                    "does not belong to group", "No tab at index",
                    "index or targetId is required", "tab not found"}
C30_NewAttributesItsTab ==
  [][\A p \in Procs :
       /\ (tpc[p] = "idle" /\ tact'[p] = "new"
             /\ targ'[p] \notin DOMAIN readRegistry(file).groups)
            => tpc'[p] = "failed" /\ browserTabs' = browserTabs
       /\ (tact[p] = "new" /\ tpc[p] \notin {"done", "failed"}
             /\ tpc'[p] \in {"done", "failed"}
             /\ ttab'[p].targetId \in browserTabs')
            => GroupOfTab(readRegistry(file'), ttab'[p].targetId) = targ[p]]_vars

\* C31: a call of createTabViaExtension that has found its target holds a
\* native tab id and a targetId of the same tab, the one it created, whatever
\* tabs other calls open between its before-snapshot and its polling
C31_SameTabReturned ==
  \A p \in Procs :
    (ttab[p].targetId # None /\ ttab[p].chromeTabId # 0)
      => ChromeTabIdOf(ttab[p].targetId) = ttab[p].chromeTabId

\* C32: both correlation functions choose the single native tab with the
\* target's url; among several, one whose title equals the target's; one of
\* the url matches when none has that title; and none without a url match
UrlMatches(t) ==
  {i \in 1..Len(chromeTabs) : chromeTabs[i].url = pageTargets[t].url}
TitleMatches(t) ==
  {i \in UrlMatches(t) : chromeTabs[i].title = pageTargets[t].title}
IdsAt(I) == {chromeTabs[i].id : i \in I}
UrlTitleRule(t, h) ==
  /\ UrlMatches(t) = {} => h = 0
  /\ Cardinality(UrlMatches(t)) = 1 => h \in IdsAt(UrlMatches(t))
  /\ (Cardinality(UrlMatches(t)) > 1 /\ TitleMatches(t) # {})
       => h \in IdsAt(TitleMatches(t))
  /\ (Cardinality(UrlMatches(t)) > 1 /\ TitleMatches(t) = {})
       => h \in IdsAt(UrlMatches(t))
C32_BothFollowRule ==
  \A t \in TargetIds :
    /\ corHandle[t].state = "done" => UrlTitleRule(t, corHandle[t].id)
    /\ corMap.state = "done" => UrlTitleRule(t, corMap.ids[t])

\* C32 as the code has it: getChromeTabId follows the rule for a target with
\* a non-empty title and chooses the first url match for one with an empty
\* title; mapTargetIdsToChromeTabIds follows it except that several url
\* matches of which none has the target's title give no handle
GetRule(t, h) ==
  IF pageTargets[t].title # "" \/ Cardinality(UrlMatches(t)) <= 1
    THEN UrlTitleRule(t, h)
    ELSE h = chromeTabs[CHOOSE i \in UrlMatches(t) :
                          \A j \in UrlMatches(t) : i <= j].id
MapRule(t, h) ==
  /\ UrlMatches(t) = {} => h = 0
  /\ Cardinality(UrlMatches(t)) = 1 => h \in IdsAt(UrlMatches(t))
  /\ (Cardinality(UrlMatches(t)) > 1 /\ TitleMatches(t) # {})
       => h \in IdsAt(TitleMatches(t))
  /\ (Cardinality(UrlMatches(t)) > 1 /\ TitleMatches(t) = {}) => h = 0
C32_EachFollowsItsRule ==
  \A t \in TargetIds :
    /\ corHandle[t].state = "done" => GetRule(t, corHandle[t].id)
    /\ corMap.state = "done" => MapRule(t, corMap.ids[t])
C32_Witness ==
  \E t \in TargetIds :
    /\ corHandle[t].state = "done" /\ corMap.state = "done"
    /\ Cardinality(UrlMatches(t)) > 1 /\ TitleMatches(t) = {}
    /\ corHandle[t].id \in IdsAt(UrlMatches(t)) /\ corMap.ids[t] = 0
    /\ \E u \in TargetIds :
         /\ Cardinality(UrlMatches(u)) > 1
         /\ corMap.ids[u] \in IdsAt(TitleMatches(u))
         /\ corMap.ids[u] # chromeTabs[1].id


\* C33: discovery hands out a target (and isTabGrouperAvailable answers true)
\* only if it is the companion's service worker on the call's endpoint, in
\* the target list at that moment, and either it answered the probe in this
\* call or it is the cached handle just found in the list; otherwise the
\* call returns null
C33_AvailabilitySound ==
  [][\A k \in Tasks :
       (fpc[k] \notin {"returned", "pending"}
        /\ fpc'[k] \in {"returned", "pending"} /\ fret'[k] # NoUrl)
         => /\ fret'[k] = Url(fe[k], Companion)
            /\ Companion \in listed[fe[k]]
            /\ \/ fpc[k] \in {"probe", "rescan"}
               \/ fpc[k] = "validate" /\ fret'[k] = cachedSwUrl]_vars
C33_Witness ==
  \E k \in Tasks :
    /\ fkind[k] = "isAvailable" /\ fpc[k] = "returned"
    /\ fret[k] = Url(fe[k], Companion)
    /\ ExtPage \in listed[fe[k]]

\* C34: 'status' prints "Running" only when the lock file exists and the pid
\* in it is a live process; with the lock file of a dead daemon it prints
\* "Not running"
C34_StatusRunningOnlyIfLive ==
  [][cliOut = None /\ cliOut' # None
       => (cliOut' = "Running" <=> (pidFile # 0 /\ DaemonAlive(pidFile)))]_vars

\* C35: the pruning step of a list, close or select call never removes the
\* registry entry of a tab that is open in the browser at that moment, also
\* when another process has opened and registered the tab after the call
\* enumerated the live tabs
C35_PruneKeepsLiveTabs ==
  [][\A p \in Procs :
       (tpc[p] = "prune" /\ tpc'[p] # "prune")
         => \A t \in DOMAIN readRegistry(file).tabs :
              t \in browserTabs => t \in DOMAIN readRegistry(file').tabs]_vars

\* C36: a waiter deletes the sentinel of a live holder only when that
\* sentinel has existed for maxWaitMs or longer, however long the waiter
\* itself has waited
C36_OnlyOldLocksBroken ==
  [][\A p \in Procs :
       (pc[p] = "timeout" /\ pc'[p] # "timeout"
        /\ lock # 0 /\ lock # p /\ isProcessAlive(lock) /\ lock' = 0)
         => lockAge * TickMs >= maxWaitMs]_vars

\* C37: a daemon never has more than one browser start in progress or browser
\* alive: no health tick begins a start while an earlier one has not spawned
\* yet or its browser lives
C37_OneStartAtATime ==
  \A d \in Daemons : browsers[d] + resolving[d] <= 1

\* C38: a registry mutation other than setExtensionId writes the file with
\* the extensionId it held before
C38_ExtensionIdFramed ==
  [][\A p \in Procs :
       (pc[p] = "apply" /\ pc'[p] # "apply" /\ alive'[p]
        /\ op[p].kind \in MutatingKinds \ {"setExtensionId"})
         => file'.json.extensionId = file.json.extensionId]_vars

\* C39: a daemon whose start() finds a live daemon in the PID lock exits and
\* leaves the lock file as it was, naming that live daemon, and has spawned
\* no browser
C39_RedundantDaemonHarmless ==
  [][\A d \in Daemons :
       (dpc[d] = "probe" /\ dpc'[d] = "exited" /\ kills' = kills)
         => /\ pidFile' = pidFile
            /\ pidFile' \in Daemons \ {d}
            /\ dpc'[pidFile'] \notin {"unborn", "exited"}
            /\ browsers'[d] = 0 /\ handle'[d] = "null"]_vars
C39_Witness ==
  \E d \in Daemons :
    /\ dpc[d] = "exited" /\ kills = 0
    /\ browsers[d] = 0 /\ handle[d] = "null"
    /\ pidFile \in Daemons \ {d} /\ DaemonAlive(pidFile)
    /\ portOwner = pidFile
    /\ \A s \in Procs : spc[s] = "ready"

=============================================================================
